---- MODULE Spec2Model ----
(***************************************************************************)
(* A model of akamai_usage_reporter/__main__.py: the run of main() as a    *)
(* state machine (credential check, contract/group discovery, property     *)
(* loop, auxiliary fetches, report writing), and the rule-tree flattener   *)
(* and classifier as a second state machine over bounded rule trees.       *)
(*                                                                         *)
(* The backend is the environment: every api.get either raises or returns  *)
(* a body, chosen nondeterministically at the call.                        *)
(***************************************************************************)
EXTENDS Integers, Sequences, FiniteSets, TLC

(* ------------------------------ bounds -------------------------------- *)

\* longest contracts list the backend returns
MaxContracts == 2
\* longest groups list the backend returns
MaxGroups == 2
\* longest properties list the backend returns
MaxProps == 2

(* ------------------------------ values -------------------------------- *)

None == "None"

\* the four required environment variables of build_api_context
CredNames ==
  {"AKAMAI_HOST", "AKAMAI_CLIENT_TOKEN", "AKAMAI_CLIENT_SECRET", "AKAMAI_ACCESS_TOKEN"}

\* a contract item of papi/v1/contracts: only contractId is read
ContractItems == [contractId : {"ctr_1", "ctr_2"}]
\* a group item of papi/v1/groups: groupId and contractIds are read
GroupItems ==
  [groupId : {"grp_1", "grp_2"},
   contractIds : SUBSET {c.contractId : c \in ContractItems}]

SeqsUpTo(S, n) == UNION {[1..k -> S] : k \in 0..n}

\* a request outcome: the call raised, or it returned one of the bodies S
Responses(S) ==
  {[raised |-> TRUE, value |-> <<>>]} \cup {[raised |-> FALSE, value |-> v] : v \in S}

\* a version number of a JSON body: the integer n, or the number n.0 that
\* json reads as a float; JsonInt(0) stands for a version that is missing,
\* null or 0 (all falsy at lines 639-644)
JsonInt(n) == [n |-> n, float |-> FALSE]
JsonFloat(n) == [n |-> n, float |-> TRUE]

\* property items of papi/v1/properties
PropertyItems ==
  {[propertyId |-> "prp_1", propertyName |-> "site-a",
    latestVersion |-> JsonInt(3), productionVersion |-> JsonInt(2),
    stagingVersion |-> JsonInt(0)],
   [propertyId |-> "prp_2", propertyName |-> "site-b",
    latestVersion |-> JsonInt(0), productionVersion |-> JsonInt(1),
    stagingVersion |-> JsonInt(4)],
   [propertyId |-> None, propertyName |-> "orphan",
    latestVersion |-> JsonInt(1), productionVersion |-> JsonInt(0),
    stagingVersion |-> JsonInt(0)],
   [propertyId |-> "prp_3", propertyName |-> "draft",
    latestVersion |-> JsonInt(0), productionVersion |-> JsonInt(0),
    stagingVersion |-> JsonInt(0)],
   [propertyId |-> "prp_5", propertyName |-> "site-c",
    latestVersion |-> JsonInt(0), productionVersion |-> JsonInt(0),
    stagingVersion |-> JsonFloat(2)]}

\* hostnames are sequences of labels; <<>> is the empty (or missing) string
WwwExampleCom == <<"www", "example", "com">>
ExampleCom == <<"example", "com">>
Intranet == <<"intranet">>

\* hostname items of .../hostnames: cnameFrom and hostname are read
HostnameLists ==
  {<<>>,
   <<[cnameFrom |-> WwwExampleCom, hostname |-> <<>>],
     [cnameFrom |-> <<>>, hostname |-> ExampleCom],
     [cnameFrom |-> Intranet, hostname |-> <<>>]>>}

\* bodies of cps/v2/enrollments, appsec/v1/configs and the other list endpoints
\* the enrollment repeats its common name among its alternative names and
\* names a host of an apex that no property serves
ShopExampleCoUk == <<"shop", "example", "co", "uk">>
EnrollmentLists ==
  {<<>>,
   <<[id |-> 11, cn |-> ExampleCom,
      sans |-> <<WwwExampleCom, ExampleCom, ShopExampleCoUk>>]>>}
\* the value under "latestVersion" of a security config: a mapping with a
\* "version" ("object"; 0: a falsy one), the empty mapping ("empty"), a bare
\* number ("number"), null ("null"), or no such key ("absent")
ConfigVersion(shape, n) == [shape |-> shape, version |-> n]

\* bodies of appsec/v1/configs; an id of 0 is a missing one. One config whose
\* policies are asked for, three that go without, four on which main raises,
\* and one that raises after the policies of an earlier config were asked for
ConfigLists ==
  {<<>>,
   <<[id |-> 7, configId |-> 0, latestVersion |-> ConfigVersion("object", 2)]>>,
   <<[id |-> 0, configId |-> 9, latestVersion |-> ConfigVersion("absent", 0)],
     [id |-> 8, configId |-> 0, latestVersion |-> ConfigVersion("empty", 0)],
     [id |-> 0, configId |-> 0, latestVersion |-> ConfigVersion("object", 0)]>>,
   <<[id |-> 7, configId |-> 0, latestVersion |-> ConfigVersion("number", 2)]>>,
   <<[id |-> 8, configId |-> 0, latestVersion |-> ConfigVersion("number", 0)]>>,
   <<[id |-> 8, configId |-> 0, latestVersion |-> ConfigVersion("null", 0)]>>,
   <<[id |-> 8, configId |-> 0, latestVersion |-> ConfigVersion("object", 0)]>>,
   <<[id |-> 7, configId |-> 0, latestVersion |-> ConfigVersion("object", 2)],
     [id |-> 7, configId |-> 0, latestVersion |-> ConfigVersion("number", 2)]>>}
ItemLists == {<<>>, <<"item">>}
DomainLists == {<<>>, <<"gtm_1">>}
GtmPropertyLists == {<<>>, <<"failover">>}

\* bodies of the traffic-management list endpoints: a mapping with an "items"
\* key, a list, a mapping without "items", or another JSON value
GtmBodies(L) ==
  {[shape |-> "dict_items", items |-> l] : l \in L}
    \cup {[shape |-> "list", items |-> l] : l \in L}
    \cup {[shape |-> "dict", items |-> <<>>], [shape |-> "other", items |-> <<>>]}

\* the base reports main always writes (lines 780-811)
BaseReports == {"usage_summary.csv", "hostnames.csv", "cps_certs.csv", "appsec_summary.csv"}

\* the value of exit_code while the process has not exited
Running == 0 - 1

VARIABLES
  env,                  \* os.environ: the credential variables that are set and non-empty
  args,                 \* the parsed command line
  pc,                   \* position of the run in main()
  exit_code,            \* the process exit status, Running until it exits
  net,                  \* the call sites that have issued a request through ApiContext.get
  last_get,             \* the latest call site to do so: the endpoints it requested, in
                        \* order, and whether its last request raised
  returned,             \* the latest fetcher call of main: what it returned, or that it raised
  contracts,            \* papi_list_properties: local contracts
  groups,               \* papi_list_properties: local groups
  ci,                   \* papi_list_properties: position of the outer loop (1-based)
  gi,                   \* papi_list_properties: position of the inner loop (1-based)
  working_combination,  \* papi_list_properties: local working_combination
  test_data,            \* papi_list_properties: outcome of the latest probe
  probes,               \* the probes this call of papi_list_properties issued, in order
  report,               \* the outcome papi_list_properties reported on stderr
  properties,           \* main: the list papi_list_properties returned
  pi,                   \* main: position of the property loop (1-based)
  host_records,         \* main: host_records
  parsed_by_property,   \* main: parsed_by_property, a mapping from keys to bundles
  cps_rows,             \* main: cps_rows
  cps_by_sni,           \* main: cps_by_sni, as the (apex, name) pairs in insertion order
  appsec_configs,       \* main: appsec_configs
  ai,                   \* main: position of the loop over appsec_configs
  appsec_rows,          \* main: appsec_rows
  products_rows,        \* main: the file names staged in products_rows
  gtm_domains,          \* main: gtm_domains
  di,                   \* main: position of the loop over gtm_domains
  gtm_props,            \* main: props of the current traffic-management domain
  gpi,                  \* main: position of the loop over props
  files,                \* the report files written directly under out_dir
  csv_rows,             \* the data rows of the base reports, by file name
  gtm_files,            \* the files written under out_dir/gtm/<domain>
  checklist_files,      \* the apexes with a file out_dir/checklists/<apex>.md
  checklist_text,       \* the content of each of these files: apex -> checklist
  rules_root,           \* flatten_rules / parse_behaviors: the rule tree given
  stack,                \* flatten_rules: local stack
  nodes,                \* flatten_rules: local nodes
  parsed,               \* parse_behaviors: the bundle returned
  rpc,                  \* position of the rule-tree run
  ctx,                  \* an ApiContext: its base_url and account_switch_key
  get_args,             \* a call of ApiContext.get: the caller's path and params
  sent,                 \* the requests that call handed to requests.get, in order
  backend               \* a fetcher called on its own, and the answers the backend
                        \* gives to its requests, in order

discoveryVars == <<contracts, groups, ci, gi, working_combination, test_data, probes>>

propertyVars == <<pi, host_records, parsed_by_property>>

auxVars == <<returned, cps_rows, cps_by_sni, appsec_configs, ai, appsec_rows,
             products_rows, gtm_domains, di, gtm_props, gpi>>

fileVars == <<files, csv_rows, gtm_files, checklist_files, checklist_text>>

ruleVars == <<rules_root, stack, nodes, parsed, rpc>>

mainVars == <<env, args, pc, exit_code, net, last_get, discoveryVars, report,
              properties, propertyVars, auxVars, fileVars>>

urlVars == <<ctx, get_args, sent, backend>>

vars == <<mainVars, ruleVars, urlVars>>

(* --------------------------- rule documents ---------------------------- *)

\* the behavior names parse_behaviors tests for (lines 278-291), and one it
\* does not know
BehaviorNames ==
  {"caching", "redirect", "responseCode",
   "modifyOutgoingResponseHeader", "modifyOutgoingRequestHeader",
   "hsts", "httpStrictTransportSecurity", "setHsts", "setResponseHeader",
   "gzipResponse"}

\* option-maps: functions from option keys to (string) values
EmptyOptions == [k \in {} |-> ""]
OptionMaps ==
  {EmptyOptions,
   [ttl |-> "300"],
   [headerName |-> "Strict-Transport-Security"],
   [headerName |-> "X-Frame-Options"],
   [name |-> "Vary"]}

\* a behavior entry: behavior.get("name"), behavior.get("options", {})
Behaviors == [name : BehaviorNames, options : OptionMaps]

\* A rule tree of n nodes, node 1 the root.  kids[i] is node i's "children"
\* entry and behaviors[i] its "behaviors" entry: the key is missing, or null,
\* or a list.
Entry(kind, items) == [kind |-> kind, items |-> items]
AbsentKinds == {"missing", "null", "list"}

\* the ascending sequence of the members of a set of node ids
RECURSIVE SortedSeq(_)
SortedSeq(S) ==
  IF S = {} THEN <<>>
  ELSE LET m == CHOOSE x \in S : \A y \in S : x <= y
       IN <<m>> \o SortedSeq(S \ {m})

\* the behaviors placed on node i, in document order
RECURSIVE PlacedOn(_, _, _, _)
PlacedOn(bs, place, i, k) ==
  IF k > Len(bs) THEN <<>>
  ELSE (IF place[k] = i THEN <<bs[k]>> ELSE <<>>) \o PlacedOn(bs, place, i, k + 1)

\* the tree with parent array parent (parent[j] < j), behaviors bs placed on the
\* nodes place, and an absent children/behaviors list written as absent
MakeTree(n, parent, bs, place, absent) ==
  [size |-> n,
   kids |-> [i \in 1..n |->
               LET cs == SortedSeq({j \in 2..n : parent[j] = i})
               IN IF cs = <<>> THEN Entry(absent, <<>>) ELSE Entry("list", cs)],
   behaviors |-> [i \in 1..n |->
               LET here == PlacedOn(bs, place, i, 1)
               IN IF here = <<>> THEN Entry(absent, <<>>) ELSE Entry("list", here)]]

ParentArrays(n) == {p \in [2..n -> 1..n] : \A j \in 2..n : p[j] < j}

\* placements of k behaviors on n nodes, one per tree (non-decreasing)
Placements(k, n) == {pl \in [1..k -> 1..n] : \A a, b \in 1..k : a < b => pl[a] <= pl[b]}

(* ---------------------------- flatten_rules ---------------------------- *)

\* a traversal that follows the first child only
children_first(t, i) ==
  IF t.kids[i].kind = "list" /\ t.kids[i].items # <<>> THEN <<t.kids[i].items[1]>> ELSE <<>>

\* line 262: current.get("children", []) or []
children_of(t, i) == IF t.kids[i].kind = "list" THEN t.kids[i].items ELSE <<>>

\* an iteration that forgets the rest of the stack
flatten_pop_forgetful(t, st) ==
  LET current == st.stack[Len(st.stack)]
  IN [stack |-> children_of(t, current), nodes |-> Append(st.nodes, current)]

\* lines 260-263, one iteration of the while loop: pop the last element of
\* the stack, append it to nodes, push its children in order
flatten_pop(t, st) ==
  LET current == st.stack[Len(st.stack)]
  IN [stack |-> SubSeq(st.stack, 1, Len(st.stack) - 1) \o children_of(t, current),
      nodes |-> Append(st.nodes, current)]

RECURSIVE flatten_loop(_, _)
flatten_loop(t, st) ==
  IF st.stack = <<>> THEN st.nodes ELSE flatten_loop(t, flatten_pop(t, st))

\* lines 256-264
flatten_rules(t) == flatten_loop(t, [stack |-> <<1>>, nodes |-> <<>>])

(* --------------------------- parse_behaviors --------------------------- *)

\* lines 268-273
EmptyParsed == [cache |-> <<>>, redirects |-> <<>>, headers |-> <<>>, hsts |-> <<>>]

\* line 275: node.get("behaviors", []) or []
behaviors_of(t, i) ==
  IF t.behaviors[i].kind = "list" THEN t.behaviors[i].items ELSE <<>>

\* a comparison that does not fold case
Lower_exact(s) == s

\* str.lower on the header names of the model
Lower(s) ==
  CASE s = "Strict-Transport-Security" -> "strict-transport-security"
    [] s = "X-Frame-Options" -> "x-frame-options"
    [] OTHER -> s

\* options.get("headerName", "")
header_name(options) ==
  IF "headerName" \in DOMAIN options THEN options["headerName"] ELSE ""

\* line 286: {"name": name, **options}: the keys of options come later and win
header_entry(name, options) ==
  [k \in {"name"} \cup DOMAIN options |->
     IF k \in DOMAIN options THEN options[k] ELSE name]

\* lines 287-293: or binds weaker than and
is_hsts(name, options) ==
  \/ name = "hsts"
  \/ name = "httpStrictTransportSecurity"
  \/ name = "setHsts"
  \/ (name = "setResponseHeader"
      /\ Lower(header_name(options)) = "strict-transport-security")

\* a cache test that wants options
is_cache_with_options(name, options) == name = "caching" /\ DOMAIN options # {}

\* line 278: name == "caching"
is_cache(name, options) == name = "caching"

\* a redirect test that does not look at the options
is_redirect_any(name, options) == name \in {"redirect", "responseCode"}

\* line 280: name in ("redirect", "responseCode") and options (a non-empty dict)
is_redirect(name, options) == name \in {"redirect", "responseCode"} /\ DOMAIN options # {}

\* lines 282-285
is_header(name) ==
  name \in {"modifyOutgoingResponseHeader", "modifyOutgoingRequestHeader"}

\* a chain whose caching branch falls through to the hsts bucket as well
classify_twice(bundle, behavior) ==
  IF behavior.name = "caching"
    THEN [bundle EXCEPT !.cache = Append(@, behavior.options),
                        !.hsts = Append(@, behavior.options)]
    ELSE bundle

\* lines 276-294: the if/elif chain for one behavior entry
classify(bundle, behavior) ==
  LET name == behavior.name
      options == behavior.options
  IN IF is_cache(name, options)
       THEN [bundle EXCEPT !.cache = Append(@, options)]
     ELSE IF is_redirect(name, options)
       THEN [bundle EXCEPT !.redirects = Append(@, options)]
     ELSE IF is_header(name)
       THEN [bundle EXCEPT !.headers = Append(@, header_entry(name, options))]
     ELSE IF is_hsts(name, options)
       THEN [bundle EXCEPT !.hsts = Append(@, options)]
     ELSE bundle

\* line 275: the behaviors of one node, from entry k on
RECURSIVE classify_all(_, _, _)
classify_all(bundle, bs, k) ==
  IF k > Len(bs) THEN bundle
  ELSE classify_all(classify(bundle, bs[k]), bs, k + 1)

\* line 274: the nodes of the flattened tree, from position k on
RECURSIVE parse_nodes(_, _, _, _)
parse_nodes(bundle, t, ns, k) ==
  IF k > Len(ns) THEN bundle
  ELSE parse_nodes(classify_all(bundle, behaviors_of(t, ns[k]), 1), t, ns, k + 1)

\* lines 267-295
parse_behaviors(t) == parse_nodes(EmptyParsed, t, flatten_rules(t), 1)

(* ------------------------- the signed client --------------------------- *)

\* ApiContext.get from the call site call: the requests for endpoints are
\* issued, and the last of them either raises (network error,
\* raise_for_status, resp.json) or returns the body.
Get(call, endpoints, raised) ==
  /\ net' = net \cup {call}
  /\ last_get' = [call |-> call, endpoints |-> endpoints, raised |-> raised]

(* ----------------------------- process exit ---------------------------- *)

\* sys.exit(code), or an exception leaving main (status 1)
Exit(code) ==
  /\ pc' = "exit"
  /\ exit_code' = code

(* ------------------------- build_api_context --------------------------- *)

\* a validation that is content with any one credential
credentials_any(e) == \E name \in CredNames : name \in e

\* all([host, client_token, client_secret, access_token]) over env_or_none
credentials_present(e) == \A name \in CredNames : name \in e

build_api_context ==
  /\ pc = "start"
  /\ IF credentials_present(env)
       THEN pc' = "contracts" /\ UNCHANGED exit_code
       ELSE Exit(2)
  /\ UNCHANGED <<env, args, net, last_get, discoveryVars, report, properties,
                 propertyVars, auxVars, fileVars, ruleVars, urlVars>>

(* ------------------------ papi_list_properties ------------------------- *)

\* a probe's outcome: it raised, or its properties.items held count items
NoProbe == [status |-> "none", count |-> 0]
ProbeRaised == [status |-> "raise", count |-> 0]
ProbeItems(n) == [status |-> "ok", count |-> n]

\* line 125: working_combination = None
NoCombination == [contractId |-> None, groupId |-> None, propertiesCount |-> 0]

\* the locals of papi_list_properties before its first statement and after it
\* has returned or raised (the frame is gone)
FrameReset ==
  /\ contracts' = <<>>
  /\ groups' = <<>>
  /\ ci' = 1
  /\ gi' = 1
  /\ working_combination' = NoCombination
  /\ test_data' = NoProbe
  /\ probes' = <<>>

\* papi_list_properties returns a list to main (line 623)
ReturnProperties(items, rep) ==
  /\ properties' = items
  /\ report' = rep
  /\ pi' = 1
  /\ pc' = IF items = <<>> THEN "cps" ELSE "property_loop"
  /\ UNCHANGED exit_code
  /\ FrameReset

\* a failure of the listing that degrades to an empty result
properties_degraded == ReturnProperties(<<>>, "error")

\* an exception leaves papi_list_properties (re-raised at line 189); main's
\* handler prints it and calls sys.exit(1) (lines 624-631)
properties_failed ==
  /\ Exit(1)
  /\ report' = "error"
  /\ UNCHANGED <<properties, pi>>
  /\ FrameReset

\* lines 166-168: no working combination: return []
return_no_combination == ReturnProperties(<<>>, "no_combination")

\* a test that takes every list for a non-empty one
no_items_never(items) == FALSE

\* lines 109 and 120: `if not contracts`, `if not groups`
no_items(items) == items = <<>>

\* lines 106-111: fetch the contracts; none: return []
papi_contracts ==
  /\ pc = "contracts"
  /\ \/ /\ Get("contracts", <<"papi/v1/contracts">>, TRUE)
        /\ properties_failed
     \/ /\ Get("contracts", <<"papi/v1/contracts">>, FALSE)
        /\ \E items \in SeqsUpTo(ContractItems, MaxContracts) :
             IF no_items(items)
               THEN ReturnProperties(<<>>, "no_contracts")
               ELSE /\ contracts' = items
                    /\ pc' = "groups"
                    /\ UNCHANGED <<exit_code, groups, ci, gi, working_combination,
                                   test_data, probes, report, properties, pi>>
  /\ UNCHANGED <<env, args, host_records, parsed_by_property, auxVars, fileVars, ruleVars, urlVars>>

\* lines 117-125: fetch the groups; none: return []
papi_groups ==
  /\ pc = "groups"
  /\ \/ /\ Get("groups", <<"papi/v1/groups">>, TRUE)
        /\ properties_failed
     \/ /\ Get("groups", <<"papi/v1/groups">>, FALSE)
        /\ \E items \in SeqsUpTo(GroupItems, MaxGroups) :
             IF no_items(items)
               THEN ReturnProperties(<<>>, "no_groups")
               ELSE /\ groups' = items
                    /\ pc' = "search"
                    /\ UNCHANGED <<exit_code, contracts, ci, gi, working_combination,
                                   test_data, probes, report, properties, pi>>
  /\ UNCHANGED <<env, args, host_records, parsed_by_property, auxVars, fileVars, ruleVars, urlVars>>

\* a membership test that lets every pair through
is_member_any(contract, group) == TRUE

\* line 135: contract_id in group_contracts
is_member(contract, group) == contract.contractId \in group.contractIds

\* an adoption test that accepts every probe that returned
is_working_any(data) == data.status = "ok"

\* an adoption test that takes a raising probe for a hit
is_working_or_raised(data) == data.status = "raise" \/ (data.status = "ok" /\ data.count > 0)

\* line 149: if properties (the probe returned and its items list is non-empty)
is_working(data) == data.status = "ok" /\ data.count > 0

\* lines 127-135, an iteration of the inner loop whose group does not list the
\* contract: nothing is requested
papi_skip_pair ==
  /\ pc = "search"
  /\ ci <= Len(contracts)
  /\ gi <= Len(groups)
  /\ ~is_member(contracts[ci], groups[gi])
  /\ gi' = gi + 1
  /\ UNCHANGED <<env, args, pc, exit_code, net, contracts, groups, ci,
                 working_combination, test_data, probes, report, last_get, properties,
                 propertyVars, auxVars, fileVars, ruleVars, urlVars>>

\* lines 135-161, an iteration of the inner loop whose group lists the contract:
\* the properties endpoint is probed; a non-empty list is adopted and breaks
\* both loops (lines 159, 163-164); an empty list or an exception goes on
papi_probe_pair ==
  /\ pc = "search"
  /\ ci <= Len(contracts)
  /\ gi <= Len(groups)
  /\ is_member(contracts[ci], groups[gi])
  /\ \E data \in {ProbeRaised} \cup {ProbeItems(n) : n \in 0..MaxProps} :
       /\ Get("probe", <<"papi/v1/properties">>, data.status = "raise")
       /\ test_data' = data
       /\ probes' = Append(probes, [ci |-> ci, gi |-> gi,
                                    contractId |-> contracts[ci].contractId,
                                    groupId |-> groups[gi].groupId,
                                    nonempty |-> data.status = "ok" /\ data.count > 0])
       /\ IF is_working(data)
            THEN /\ working_combination' =
                      [contractId |-> contracts[ci].contractId,
                       groupId |-> groups[gi].groupId,
                       propertiesCount |-> data.count]
                 /\ pc' = "select"
                 /\ UNCHANGED gi
            ELSE /\ gi' = gi + 1
                 /\ UNCHANGED <<working_combination, pc>>
  /\ UNCHANGED <<env, args, exit_code, contracts, groups, ci, report, properties,
                 propertyVars, auxVars, fileVars, ruleVars, urlVars>>

\* lines 127, 130, 163: the inner loop is exhausted without a hit: next contract,
\* or the end of the outer loop
papi_next_contract ==
  /\ pc = "search"
  /\ ci <= Len(contracts)
  /\ gi > Len(groups)
  /\ IF ci < Len(contracts)
       THEN ci' = ci + 1 /\ gi' = 1 /\ UNCHANGED pc
       ELSE ci' = ci + 1 /\ gi' = 1 /\ pc' = "select"
  /\ UNCHANGED <<env, args, exit_code, net, contracts, groups,
                 working_combination, test_data, probes, report, last_get, properties,
                 propertyVars, auxVars, fileVars, ruleVars, urlVars>>

\* lines 166-173: no working combination: return []; otherwise the adopted
\* pair is used.  The locals of the search (contracts, groups, the loop
\* positions, test_data) are never read after line 164: they are forgotten
\* here, with the record of the probes.
papi_select ==
  /\ pc = "select"
  /\ IF working_combination = NoCombination
       THEN return_no_combination
       ELSE /\ pc' = "listing"
            /\ contracts' = <<>>
            /\ groups' = <<>>
            /\ ci' = 1
            /\ gi' = 1
            /\ test_data' = NoProbe
            /\ probes' = <<>>
            /\ UNCHANGED <<working_combination, report, properties, pi, exit_code>>
  /\ UNCHANGED <<env, args, net, last_get, host_records, parsed_by_property, auxVars,
                 fileVars, ruleVars, urlVars>>

\* lines 176-189: list the properties of the adopted pair and return them; a
\* failure of the request leaves the function (line 189)
papi_listing ==
  /\ pc = "listing"
  /\ \/ /\ Get("listing", <<"papi/v1/properties">>, TRUE)
        /\ properties_failed
     \/ /\ Get("listing", <<"papi/v1/properties">>, FALSE)
        /\ \E items \in SeqsUpTo(PropertyItems, MaxProps) :
             ReturnProperties(items, "listed")
  /\ UNCHANGED <<env, args, host_records, parsed_by_property, auxVars, fileVars, ruleVars, urlVars>>


(* ------------------------------- apex_of ------------------------------- *)

\* the entries of tldextract's public suffix list (its ICANN section, the
\* default) that are made of the labels of the names here and of net and org;
\* the list has no wildcard or exception rule over these labels
PublicSuffixes ==
  {<<"com">>, <<"net">>, <<"org">>, <<"co">>, <<"uk">>, <<"shop">>,
   <<"co", "uk">>, <<"net", "uk">>, <<"org", "uk">>,
   <<"com", "co">>, <<"net", "co">>, <<"org", "co">>}

Last(h, k) == SubSeq(h, Len(h) - k + 1, Len(h))

\* tldextract's registered_domain: the longest public suffix the name ends in
\* and the label before it; empty without a suffix or without such a label
registered_domain(h) ==
  LET ks == {k \in 1..Len(h) : Last(h, k) \in PublicSuffixes}
  IN IF ks = {} THEN <<>>
     ELSE LET k == CHOOSE x \in ks : \A y \in ks : y <= x
          IN IF k = Len(h) THEN <<>> ELSE Last(h, k + 1)

\* a grouping by the raw hostname
apex_raw(hostname) == hostname

\* lines 305-309
apex_of(hostname) ==
  IF registered_domain(hostname) = <<>> THEN hostname ELSE registered_domain(hostname)

(* -------------------------- the property loop -------------------------- *)

\* the truth value of a version number: 0 and 0.0 are falsy
truthy(v) == v.n # 0

\* int(v), as at lines 649, 662 and 668
to_int(v) == v.n

\* f"{v}": the digits of the number, with ".0" for a float
format(v) == [digits |-> v.n, point |-> v.float]

\* a choice that prefers the production version
latest_version_production_first(prop) ==
  IF truthy(prop.productionVersion) THEN prop.productionVersion
  ELSE IF truthy(prop.latestVersion) THEN prop.latestVersion
  ELSE prop.stagingVersion

\* lines 639-643: latestVersion or productionVersion or stagingVersion
latest_version(prop) ==
  IF truthy(prop.latestVersion) THEN prop.latestVersion
  ELSE IF truthy(prop.productionVersion) THEN prop.productionVersion
  ELSE prop.stagingVersion

\* line 644: not (not property_id or not latest_version)
is_usable(prop) == prop.propertyId # None /\ truthy(latest_version(prop))

\* lines 658-659: hn.get("cnameFrom") or hn.get("hostname", "")
host_name(hn) == IF hn.cnameFrom # <<>> THEN hn.cnameFrom ELSE hn.hostname

\* lines 656-664
HostnameRecord(prop, hn) ==
  [apex |-> apex_of(host_name(hn)),
   hostname |-> host_name(hn),
   property_name |-> prop.propertyName,
   property_id |-> prop.propertyId,
   property_version |-> to_int(latest_version(prop))]

\* line 636: the for loop goes on to the next property, or ends
NextProperty ==
  /\ pi' = pi + 1
  /\ pc' = IF pi < Len(properties) THEN "property_loop" ELSE "cps"

\* lines 636-645: a property without id or version is skipped
main_skip_property ==
  /\ pc = "property_loop"
  /\ ~is_usable(properties[pi])
  /\ NextProperty
  /\ UNCHANGED <<env, args, exit_code, net, last_get, discoveryVars, report, properties,
                 host_records, parsed_by_property, auxVars, fileVars, ruleVars, urlVars>>

\* lines 646-664: the hostnames of a property; a failing request gives none
main_hostnames ==
  /\ pc = "property_loop"
  /\ is_usable(properties[pi])
  /\ \E resp \in Responses(HostnameLists) :
       LET hostnames == IF resp.raised THEN <<>> ELSE resp.value
       IN /\ Get("hostnames", <<"papi/v1/properties/{id}/versions/{v}/hostnames">>, resp.raised)
          /\ returned' = [fn |-> "papi_get_hostnames", raised |-> resp.raised,
                          value |-> hostnames]
          /\ host_records' = host_records \o
               [k \in 1..Len(hostnames) |-> HostnameRecord(properties[pi], hostnames[k])]
  /\ IF args.include_rules
       THEN pc' = "property_rules" /\ UNCHANGED pi
       ELSE NextProperty
  /\ UNCHANGED <<env, args, exit_code, discoveryVars, report, properties,
                 parsed_by_property, cps_rows, cps_by_sni, appsec_configs, ai,
                 appsec_rows, products_rows, gtm_domains, di, gtm_props, gpi,
                 fileVars, ruleVars, urlVars>>

\* the rule documents the rules endpoint returns in a run of main
RuleDocs ==
  {MakeTree(2, 2 :> 1, <<[name |-> "caching", options |-> [ttl |-> "300"]]>>, <<2>>, "list")}

\* a key that reads latestVersion only
rules_key_latest(prop) ==
  [property_id |-> prop.propertyId, version |-> format(prop.latestVersion)]

\* line 670: the key f"{property_id}:{latest_version}"
rules_key(prop) ==
  [property_id |-> prop.propertyId, version |-> format(latest_version(prop))]

\* line 670: parsed_by_property[key] = bundle
store(mapping, key, value) ==
  [k \in DOMAIN mapping \cup {key} |-> IF k = key THEN value ELSE mapping[k]]

\* lines 665-674: with --include-rules, fetch and parse the rules of the
\* property; a failure leaves the property without a bundle
main_rules ==
  /\ pc = "property_rules"
  /\ \/ /\ Get("rules", <<"papi/v1/properties/{id}/versions/{v}/rules">>, TRUE)
        /\ returned' = [fn |-> "papi_get_rules", raised |-> TRUE, value |-> <<>>]
        /\ UNCHANGED parsed_by_property
     \/ /\ Get("rules", <<"papi/v1/properties/{id}/versions/{v}/rules">>, FALSE)
        /\ \E doc \in RuleDocs :
             /\ returned' = [fn |-> "papi_get_rules", raised |-> FALSE, value |-> doc]
             /\ parsed_by_property' =
                  store(parsed_by_property, rules_key(properties[pi]), parse_behaviors(doc))
  /\ NextProperty
  /\ UNCHANGED <<env, args, exit_code, discoveryVars, report, properties,
                 host_records, cps_rows, cps_by_sni, appsec_configs, ai,
                 appsec_rows, products_rows, gtm_domains, di, gtm_props, gpi,
                 fileVars, ruleVars, urlVars>>

(* ------------------------- auxiliary fetchers -------------------------- *)

\* try: return <the list in the body>; except Exception: return []
\* (every auxiliary fetcher, e.g. cps_list_enrollments lines 223-227)
or_empty(resp) == [raised |-> FALSE, value |-> IF resp.raised THEN <<>> ELSE resp.value]

\* the call of a fetcher from main: main goes on to pc value next with what
\* the fetcher returned; an exception leaving the fetcher would leave main
Call(fn, r, next) ==
  /\ returned' = [fn |-> fn, raised |-> r.raised, value |-> r.value]
  /\ pc' = IF r.raised THEN "exit" ELSE next
  /\ exit_code' = IF r.raised THEN 1 ELSE exit_code

\* lines 222-227
cps_list_enrollments(resp) == or_empty(resp)

\* an index that reads the common name only
enrollment_names_cn(enr) == IF enr.cn # <<>> THEN <<enr.cn>> ELSE <<>>

\* lines 681-690: the common name, if any, then the alternative names
enrollment_names(enr) == (IF enr.cn # <<>> THEN <<enr.cn>> ELSE <<>>) \o enr.sans

\* lines 691-694 for one enrollment
sni_pairs(enr) ==
  LET names == SelectSeq(enrollment_names(enr), LAMBDA n : n # <<>>)
  IN [k \in 1..Len(names) |-> [apex |-> apex_of(names[k]), name |-> names[k]]]

RECURSIVE all_sni_pairs(_, _)
all_sni_pairs(cps, k) ==
  IF k > Len(cps) THEN <<>> ELSE sni_pairs(cps[k]) \o all_sni_pairs(cps, k + 1)

\* lines 676-703
main_cps ==
  /\ pc = "cps"
  /\ \E resp \in Responses(EnrollmentLists) :
       LET r == cps_list_enrollments(resp)
       IN /\ Get("cps_list_enrollments", <<"cps/v2/enrollments">>, resp.raised)
          /\ Call("cps_list_enrollments", r, "appsec")
          /\ cps_by_sni' = all_sni_pairs(r.value, 1)
          /\ cps_rows' = [k \in 1..Len(r.value) |->
                            <<r.value[k].id, r.value[k].cn, r.value[k].sans>>]
  /\ UNCHANGED <<env, args, discoveryVars, report, properties, propertyVars,
                 appsec_configs, ai, appsec_rows, products_rows, gtm_domains, di,
                 gtm_props, gpi, fileVars, ruleVars, urlVars>>

\* lines 233-238
appsec_list_configs(resp) == or_empty(resp)

\* lines 241-250
appsec_list_policies(resp) == or_empty(resp)

\* line 721: after the security configs, the products if asked for
AfterAppsec == IF args.include_products THEN "edgedns" ELSE "write"

\* lines 706-708
main_appsec_configs ==
  /\ pc = "appsec"
  /\ \E resp \in Responses(ConfigLists) :
       LET r == appsec_list_configs(resp)
       IN /\ Get("appsec_list_configs", <<"appsec/v1/configs">>, resp.raised)
          /\ Call("appsec_list_configs", r,
                  IF r.value = <<>> THEN AfterAppsec ELSE "appsec_policies")
          /\ appsec_configs' = r.value
  /\ ai' = 1
  /\ UNCHANGED <<env, args, discoveryVars, report, properties, propertyVars,
                 cps_rows, cps_by_sni, appsec_rows, products_rows, gtm_domains, di,
                 gtm_props, gpi, fileVars, ruleVars, urlVars>>

\* line 708: the loop over appsec_configs goes on, or ends
NextConfig == IF ai < Len(appsec_configs) THEN "appsec_policies" ELSE AfterAppsec

\* line 709: the mapping's truthy "version", else the value under
\* "latestVersion" itself (the mapping, or None without the key)
latest_of(cfg) ==
  IF cfg.latestVersion.shape = "object" /\ cfg.latestVersion.version # 0
    THEN ConfigVersion("number", cfg.latestVersion.version)
    ELSE cfg.latestVersion

\* line 710: cfg.get("id") or cfg.get("configId")
config_id_of(cfg) == IF cfg.id # 0 THEN cfg.id ELSE cfg.configId

\* line 714, config_id and latest: latest is truthy as a non-zero number or a
\* non-empty mapping
wants_policies(cfg) ==
  /\ config_id_of(cfg) # 0
  /\ \/ latest_of(cfg).shape = "number" /\ latest_of(cfg).version # 0
     \/ latest_of(cfg).shape = "object"

\* the loop body raises: at line 709, cfg.get("latestVersion", {}).get(...),
\* AttributeError for a number or null under the key (only a mapping has a
\* get); at line 713, int(latest), TypeError for a mapping
appsec_raises(cfg) ==
  \/ cfg.latestVersion.shape \in {"number", "null"}
  \/ wants_policies(cfg) /\ latest_of(cfg).shape = "object"

\* lines 709-717, a config with id and version: its policies are fetched
main_appsec_policies ==
  /\ pc = "appsec_policies"
  /\ ~appsec_raises(appsec_configs[ai])
  /\ wants_policies(appsec_configs[ai])
  /\ \E resp \in Responses(ItemLists) :
       LET r == appsec_list_policies(resp)
       IN /\ Get("appsec_list_policies", <<"appsec/v1/configs/{id}/versions/{v}/security-policies">>, resp.raised)
          /\ Call("appsec_list_policies", r, NextConfig)
          /\ appsec_rows' = Append(appsec_rows,
               <<config_id_of(appsec_configs[ai]), latest_of(appsec_configs[ai]),
                 Len(r.value)>>)
  /\ ai' = ai + 1
  /\ UNCHANGED <<env, args, discoveryVars, report, properties, propertyVars,
                 cps_rows, cps_by_sni, appsec_configs, products_rows, gtm_domains, di,
                 gtm_props, gpi, fileVars, ruleVars, urlVars>>

\* lines 709-717, a config without id or version: no request, no policies
main_appsec_no_policies ==
  /\ pc = "appsec_policies"
  /\ ~appsec_raises(appsec_configs[ai])
  /\ ~wants_policies(appsec_configs[ai])
  /\ appsec_rows' = Append(appsec_rows,
       <<config_id_of(appsec_configs[ai]), latest_of(appsec_configs[ai]), 0>>)
  /\ ai' = ai + 1
  /\ pc' = NextConfig
  /\ UNCHANGED <<env, args, exit_code, net, last_get, returned, discoveryVars, report,
                 properties, propertyVars, cps_rows, cps_by_sni, appsec_configs,
                 products_rows, gtm_domains, di, gtm_props, gpi, fileVars, ruleVars, urlVars>>

\* lines 709 and 713 raising: no handler of main is around the loop, the
\* exception leaves main and the process ends with status 1
main_appsec_raises ==
  /\ pc = "appsec_policies"
  /\ appsec_raises(appsec_configs[ai])
  /\ Exit(1)
  /\ UNCHANGED <<env, args, net, last_get, returned, discoveryVars, report,
                 properties, propertyVars, cps_rows, cps_by_sni, appsec_configs, ai,
                 appsec_rows, products_rows, gtm_domains, di, gtm_props, gpi, fileVars,
                 ruleVars, urlVars>>

(* ------------------------- additional products ------------------------- *)

\* a fetcher without the v1 fallback
edgedns_v2_only(v2, v1) ==
  [raised |-> FALSE, value |-> IF v2.raised THEN <<>> ELSE v2.value,
   requested |-> <<"config-dns/v2/zones">>, last_raised |-> v2.raised]

\* lines 315-328: v2, and v1 when v2 raised or gave no zones; requested is
\* what was requested
edgedns_list_zones(v2, v1) ==
  IF ~v2.raised /\ v2.value # <<>>
    THEN [raised |-> FALSE, value |-> v2.value,
          requested |-> <<"config-dns/v2/zones">>, last_raised |-> FALSE]
    ELSE [raised |-> FALSE, value |-> IF v1.raised THEN <<>> ELSE v1.value,
          requested |-> <<"config-dns/v2/zones", "config-dns/v1/zones">>,
          last_raised |-> v1.raised]

\* lines 722-730
main_edgedns ==
  /\ pc = "edgedns"
  /\ \E v2 \in Responses(ItemLists), v1 \in Responses(ItemLists) :
       LET r == edgedns_list_zones(v2, v1)
       IN /\ Get("edgedns_list_zones", r.requested, r.last_raised)
          /\ Call("edgedns_list_zones", r, "gtm_domains")
  /\ products_rows' = products_rows \cup {"edgedns_zones.csv"}
  /\ UNCHANGED <<env, args, discoveryVars, report, properties, propertyVars,
                 cps_rows, cps_by_sni, appsec_configs, ai, appsec_rows, gtm_domains, di,
                 gtm_props, gpi, fileVars, ruleVars, urlVars>>

\* a normalisation that knows the mapping with "items" only
items_only(body) == IF body.shape = "dict_items" THEN body.items ELSE <<>>

\* lines 335-339 (and the same lines of every gtm_list_* fetcher): the "items"
\* of a mapping that has them, a list as it is, nothing otherwise
items_or_list(body) ==
  IF body.shape = "dict_items" THEN body.items
  ELSE IF body.shape = "list" THEN body.items
  ELSE <<>>

\* lines 331-341 (gtm_list_domains) and 344-422 (the per-domain list fetchers)
gtm_list(resp) ==
  or_empty([raised |-> resp.raised,
            value |-> IF resp.raised THEN <<>> ELSE items_or_list(resp.value)])

\* lines 732-733
main_gtm_domains ==
  /\ pc = "gtm_domains"
  /\ \E resp \in Responses(GtmBodies(DomainLists)) :
       LET r == gtm_list(resp)
       IN /\ Get("gtm_list_domains", <<"gtm/v1/domains">>, resp.raised)
          /\ Call("gtm_list_domains", r, "edgeworkers")
          /\ gtm_domains' = r.value
  /\ products_rows' = products_rows \cup {"gtm_domains.csv"}
  /\ UNCHANGED <<env, args, discoveryVars, report, properties, propertyVars,
                 cps_rows, cps_by_sni, appsec_configs, ai, appsec_rows, di,
                 gtm_props, gpi, fileVars, ruleVars, urlVars>>

\* lines 425-430
edgeworkers_list(resp) == or_empty(resp)

\* lines 735-744
main_edgeworkers ==
  /\ pc = "edgeworkers"
  /\ \E resp \in Responses(ItemLists) :
       /\ Get("edgeworkers_list", <<"edgeworkers/v1/edgeworkers">>, resp.raised)
       /\ Call("edgeworkers_list", edgeworkers_list(resp), "cloudlets")
  /\ products_rows' = products_rows \cup {"edgeworkers.csv"}
  /\ UNCHANGED <<env, args, discoveryVars, report, properties, propertyVars,
                 cps_rows, cps_by_sni, appsec_configs, ai, appsec_rows, gtm_domains, di,
                 gtm_props, gpi, fileVars, ruleVars, urlVars>>

\* lines 433-438
cloudlets_list_policies(resp) == or_empty(resp)

\* lines 746-755
main_cloudlets ==
  /\ pc = "cloudlets"
  /\ \E resp \in Responses(ItemLists) :
       /\ Get("cloudlets_list_policies", <<"cloudlets/v2/policies">>, resp.raised)
       /\ Call("cloudlets_list_policies", cloudlets_list_policies(resp), "cloud_wrapper")
  /\ products_rows' = products_rows \cup {"cloudlets_policies.csv"}
  /\ UNCHANGED <<env, args, discoveryVars, report, properties, propertyVars,
                 cps_rows, cps_by_sni, appsec_configs, ai, appsec_rows, gtm_domains, di,
                 gtm_props, gpi, fileVars, ruleVars, urlVars>>

\* lines 441-460: the first of the two endpoints that answers with a
\* non-empty list; a raising or empty one is passed over
cloud_wrapper_list(containers, configurations) ==
  IF ~containers.raised /\ containers.value # <<>>
    THEN [raised |-> FALSE, value |-> containers.value,
          requested |-> <<"cloud-wrapper/v1/containers">>, last_raised |-> FALSE]
    ELSE [raised |-> FALSE,
          value |-> IF configurations.raised THEN <<>> ELSE configurations.value,
          requested |-> <<"cloud-wrapper/v1/containers", "cloud-wrapper/v1/configurations">>,
          last_raised |-> configurations.raised]

\* lines 757-765
main_cloud_wrapper ==
  /\ pc = "cloud_wrapper"
  /\ \E c1 \in Responses(ItemLists), c2 \in Responses(ItemLists) :
       LET r == cloud_wrapper_list(c1, c2)
       IN /\ Get("cloud_wrapper_list", r.requested, r.last_raised)
          /\ Call("cloud_wrapper_list", r, "write")
  /\ products_rows' = products_rows \cup {"cloud_wrapper.csv"}
  /\ UNCHANGED <<env, args, discoveryVars, report, properties, propertyVars,
                 cps_rows, cps_by_sni, appsec_configs, ai, appsec_rows, gtm_domains, di,
                 gtm_props, gpi, fileVars, ruleVars, urlVars>>

(* --------------------------- report writing ---------------------------- *)

\* lines 769-779: a usage_summary.csv row
usage_row(hr) ==
  <<hr.apex, hr.hostname, hr.property_name, hr.property_id, hr.property_version>>

\* lines 789-798: a hostnames.csv row
hostnames_row(hr) ==
  <<hr.hostname, hr.apex, hr.property_name, hr.property_id, hr.property_version>>

\* lines 767-832: the base reports, then the product reports if asked for
main_write_reports ==
  /\ pc = "write"
  /\ csv_rows' =
       [f \in BaseReports |->
          CASE f = "usage_summary.csv" ->
                 [k \in 1..Len(host_records) |-> usage_row(host_records[k])]
            [] f = "hostnames.csv" ->
                 [k \in 1..Len(host_records) |-> hostnames_row(host_records[k])]
            [] f = "cps_certs.csv" -> cps_rows
            [] f = "appsec_summary.csv" -> appsec_rows]
  /\ files' = files \cup BaseReports
                \cup (IF args.include_products THEN products_rows ELSE {})
  /\ di' = 1
  /\ pc' = IF args.include_products /\ gtm_domains # <<>>
             THEN "gtm_datacenters" ELSE "checklists"
  /\ UNCHANGED <<env, args, exit_code, net, last_get, returned, discoveryVars, report,
                 properties, propertyVars, cps_rows, cps_by_sni, appsec_configs, ai,
                 appsec_rows, products_rows, gtm_domains, gtm_props, gpi,
                 gtm_files, checklist_files, checklist_text, ruleVars, urlVars>>

(* ------------------- traffic management, per domain -------------------- *)

GtmFile(name, property) == [domain |-> gtm_domains[di], name |-> name, property |-> property]

\* one per-domain list fetcher called from main, and the files main writes
\* once it has returned
GtmListStep(fn, endpoint, written, next) ==
  /\ \E resp \in Responses(GtmBodies(ItemLists)) :
       /\ Get(fn, <<endpoint>>, resp.raised)
       /\ Call(fn, gtm_list(resp), next)
  /\ gtm_files' = gtm_files \cup {GtmFile(name, "") : name \in written}
  /\ UNCHANGED <<env, args, discoveryVars, report, properties, propertyVars,
                 cps_rows, cps_by_sni, appsec_configs, ai, appsec_rows, products_rows,
                 gtm_domains, di, gtm_props, gpi, files, csv_rows, checklist_files,
                 checklist_text,
                 ruleVars, urlVars>>

\* lines 839-874 (gtm_list_datacenters, lines 344-353)
main_gtm_datacenters ==
  /\ pc = "gtm_datacenters"
  /\ GtmListStep("gtm_list_datacenters", "gtm/v1/domains/{domain}/datacenters",
                 {"datacenters.csv", "datacenters.json"}, "gtm_liveness")

\* lines 876-911 (gtm_list_liveness_tests, lines 377-386)
main_gtm_liveness ==
  /\ pc = "gtm_liveness"
  /\ GtmListStep("gtm_list_liveness_tests", "gtm/v1/domains/{domain}/liveness-tests",
                 {"liveness_tests.csv", "liveness_tests.json"}, "gtm_cidr")

\* line 913 (gtm_list_cidr_maps, lines 389-398)
main_gtm_cidr ==
  /\ pc = "gtm_cidr"
  /\ GtmListStep("gtm_list_cidr_maps", "gtm/v1/domains/{domain}/cidr-maps", {}, "gtm_as")

\* line 914 (gtm_list_as_maps, lines 413-422)
main_gtm_as ==
  /\ pc = "gtm_as"
  /\ GtmListStep("gtm_list_as_maps", "gtm/v1/domains/{domain}/as-maps", {}, "gtm_geo")

\* lines 915-954 (gtm_list_geo_maps, lines 401-410)
main_gtm_geo ==
  /\ pc = "gtm_geo"
  /\ GtmListStep("gtm_list_geo_maps", "gtm/v1/domains/{domain}/geo-maps",
                 {"cidr_maps.csv", "as_maps.csv", "geo_maps.csv",
                  "cidr_maps.json", "as_maps.json", "geo_maps.json"}, "gtm_properties")

\* line 835: the loop over gtm_domains goes on, or ends
NextDomain == IF di < Len(gtm_domains) THEN "gtm_datacenters" ELSE "checklists"

\* lines 956-957 (gtm_list_properties, lines 356-365); without properties,
\* properties.csv is written at once (lines 1001-1017)
main_gtm_properties ==
  /\ pc = "gtm_properties"
  /\ \E resp \in Responses(GtmBodies(GtmPropertyLists)) :
       LET r == gtm_list(resp)
       IN /\ Get("gtm_list_properties", <<"gtm/v1/domains/{domain}/properties">>, resp.raised)
          /\ Call("gtm_list_properties", r,
                  IF r.value = <<>> THEN NextDomain ELSE "gtm_property")
          /\ gtm_props' = r.value
          /\ gtm_files' = IF r.value = <<>>
                            THEN gtm_files \cup {GtmFile("properties.csv", "")}
                            ELSE gtm_files
          /\ di' = IF r.value = <<>> THEN di + 1 ELSE di
  /\ gpi' = 1
  /\ UNCHANGED <<env, args, discoveryVars, report, properties, propertyVars,
                 cps_rows, cps_by_sni, appsec_configs, ai, appsec_rows, products_rows,
                 gtm_domains, files, csv_rows, checklist_files, checklist_text, ruleVars, urlVars>>

\* lines 368-374
gtm_get_property(resp) == or_empty(resp)

\* lines 958-1017: one traffic-management property: its detail is fetched and
\* its two files written; after the last one, properties.csv
main_gtm_property ==
  /\ pc = "gtm_property"
  /\ LET last == gpi = Len(gtm_props)
     IN /\ \E resp \in Responses(ItemLists) :
             /\ Get("gtm_get_property", <<"gtm/v1/domains/{domain}/properties/{name}">>,
                    resp.raised)
             /\ Call("gtm_get_property", gtm_get_property(resp),
                     IF last THEN NextDomain ELSE "gtm_property")
        /\ gtm_files' = gtm_files
             \cup {GtmFile("property_targets.csv", gtm_props[gpi]),
                   GtmFile("property.json", gtm_props[gpi])}
             \cup (IF last THEN {GtmFile("properties.csv", "")} ELSE {})
        /\ di' = IF last THEN di + 1 ELSE di
  /\ gpi' = gpi + 1
  /\ UNCHANGED <<env, args, discoveryVars, report, properties, propertyVars,
                 cps_rows, cps_by_sni, appsec_configs, ai, appsec_rows, products_rows,
                 gtm_domains, gtm_props, files, csv_rows, checklist_files, checklist_text, ruleVars, urlVars>>

(* ----------------------------- checklists ------------------------------ *)

\* the place of the strings of the model in Python's string order
StrRank(s) ==
  CASE s = "co" -> 1 [] s = "com" -> 2 [] s = "draft" -> 3 [] s = "example" -> 4
    [] s = "intranet" -> 5 [] s = "orphan" -> 6 [] s = "shop" -> 7
    [] s = "site-a" -> 8 [] s = "site-b" -> 9 [] s = "site-c" -> 10
    [] s = "uk" -> 11 [] s = "www" -> 12

\* a sort key for a dotted name: its labels' places (the labels of the model
\* have no character below the dot, so the dotted strings compare as their
\* label sequences do)
name_key(h) == [k \in 1..Len(h) |-> StrRank(h[k])]

\* Python's < on tuples of numbers
RECURSIVE LexLess(_, _)
LexLess(a, b) ==
  IF a = <<>> THEN b # <<>>
  ELSE IF b = <<>> THEN FALSE
  ELSE IF a[1] # b[1] THEN a[1] < b[1]
  ELSE LexLess(Tail(a), Tail(b))

\* the positions S of a list in ascending order of their keys, equal keys in
\* the order of the list (sorted() is stable)
RECURSIVE sorted_order(_, _)
sorted_order(S, keys) ==
  IF S = {} THEN <<>>
  ELSE LET m == CHOOSE i \in S :
                  \A j \in S \ {i} :
                    LexLess(keys[i], keys[j]) \/ (keys[i] = keys[j] /\ i < j)
       IN <<m>> \o sorted_order(S \ {m}, keys)

\* a listing in the order of the input
unsorted(seq, keys) == seq

\* sorted(seq, key=...), keys[k] being the key of seq[k]
sorted(seq, keys) ==
  LET order == sorted_order(1..Len(seq), keys)
  IN [k \in 1..Len(seq) |-> seq[order[k]]]

\* sorted(set(names)) for dotted names
RECURSIVE sorted_set(_)
sorted_set(S) ==
  IF S = {} THEN <<>>
  ELSE LET m == CHOOSE x \in S : \A y \in S \ {x} : LexLess(name_key(x), name_key(y))
       IN <<m>> \o sorted_set(S \ {m})

\* line 519: the key f"{hr.property_id}:{hr.property_version}"
lookup_key(hr) ==
  [property_id |-> hr.property_id, version |-> format(JsonInt(hr.property_version))]

\* lines 522-532: the summary section of a record whose configuration has a
\* bundle: its heading and a flag per non-empty bucket
rules_section(hr, bundle) ==
  [property_name |-> hr.property_name,
   property_version |-> hr.property_version,
   cache |-> bundle.cache # <<>>,
   redirects |-> bundle.redirects # <<>>,
   headers |-> bundle.headers # <<>>,
   hsts |-> bundle.hsts # <<>>]

\* lines 493-534: the variable parts of a checklist: the CPS SANs line if the
\* apex is a key of cps_by_sni, the Hostnames lines, the Rules summary sections
generate_checklist(apex, records, bundles, sni) ==
  LET certified == SelectSeq(sni, LAMBDA p : p.apex = apex)
      by_hostname == sorted(records, [k \in 1..Len(records) |->
                                       name_key(records[k].hostname)])
      by_config == sorted(records, [k \in 1..Len(records) |->
                                     <<StrRank(records[k].property_name),
                                       records[k].property_version>>])
      summarized == SelectSeq(by_config, LAMBDA hr : lookup_key(hr) \in DOMAIN bundles)
  IN [apex |-> apex,
      sans |-> [present |-> certified # <<>>,
                names |-> sorted_set({certified[k].name : k \in 1..Len(certified)})],
      hostnames |-> [k \in 1..Len(by_hostname) |->
                       [hostname |-> by_hostname[k].hostname,
                        property_name |-> by_hostname[k].property_name,
                        property_version |-> by_hostname[k].property_version]],
      rules |-> [k \in 1..Len(summarized) |->
                   rules_section(summarized[k], bundles[lookup_key(summarized[k])])]]

\* a grouping that hands every record to every apex
records_all(apex) == host_records

\* lines 1020-1022: host_by_apex[apex], the records of an apex in list order
records_of(apex) == SelectSeq(host_records, LAMBDA hr : hr.apex = apex)

\* lines 1019-1029: one checklist per apex of host_records, then return 0
main_checklists ==
  /\ pc = "checklists"
  /\ checklist_files' = {host_records[k].apex : k \in 1..Len(host_records)}
  /\ checklist_text' =
       [apex \in {host_records[k].apex : k \in 1..Len(host_records)} |->
          generate_checklist(apex, records_of(apex), parsed_by_property, cps_by_sni)]
  /\ Exit(0)
  /\ UNCHANGED <<env, args, net, last_get, discoveryVars, report, properties,
                 propertyVars, auxVars, files, csv_rows, gtm_files, ruleVars, urlVars>>

(* --------------------------- the rule-tree run -------------------------- *)

\* nodes of the largest rule tree
MaxNodes == 3
\* behavior entries of a rule tree, over all its nodes
MaxBehaviors == 1

\* lines 259-263: one iteration of the while loop of flatten_rules
flatten_step ==
  /\ rpc = "flatten"
  /\ stack # <<>>
  /\ LET st == flatten_pop(rules_root, [stack |-> stack, nodes |-> nodes])
     IN stack' = st.stack /\ nodes' = st.nodes
  /\ UNCHANGED <<rules_root, parsed, rpc, mainVars, urlVars>>

\* lines 264, 274-295: the stack is empty: flatten_rules returns nodes and
\* parse_behaviors classifies the behaviors of each of them
classify_nodes ==
  /\ rpc = "flatten"
  /\ stack = <<>>
  /\ parsed' = parse_nodes(EmptyParsed, rules_root, nodes, 1)
  /\ rpc' = "done"
  /\ UNCHANGED <<rules_root, stack, nodes, mainVars, urlVars>>

(* ------------------------------ ApiContext ----------------------------- *)

\* a path with or without a leading slash
Paths ==
  {[slash |-> t, rest |-> r] :
     t \in BOOLEAN, r \in {"papi/v1/contracts", "cps/v2/enrollments"}}

\* the params argument of a call: None (given is FALSE) or a dict, which may
\* hold an accountSwitchKey of the caller's
ParamKeys == {"contractId", "groupId", "accountSwitchKey"}
ParamValue(k) ==
  CASE k = "contractId" -> "ctr_1"
    [] k = "groupId" -> "grp_1"
    [] k = "accountSwitchKey" -> "caller-key"
EmptyParams == [k \in {} |-> ""]
CallerParams ==
  {[given |-> FALSE, map |-> EmptyParams]}
    \cup {[given |-> TRUE, map |-> [k \in K |-> ParamValue(k)]] : K \in SUBSET ParamKeys}

\* a context that never has a switch key
has_switch_key_never(c) == FALSE

\* line 86: `if self.account_switch_key`, false for None and for ""
has_switch_key(c) == c.account_switch_key \notin {None, ""}

\* line 84: base_url.rstrip('/') + "/" + path.lstrip('/')
join_url(base_url, path) == [host |-> base_url.host, path |-> path.rest]

\* lines 81-88: the url, the params of the request (a copy of the caller's,
\* line 85, with the switch key set last) and the caller's params object as
\* the call leaves it
build_url(c, path, params) ==
  LET copy == IF params.given THEN params.map ELSE EmptyParams
  IN [url |-> join_url(c.base_url, path),
      params |-> IF has_switch_key(c)
                   THEN store(copy, "accountSwitchKey", c.account_switch_key)
                   ELSE copy,
      caller |-> params]

\* lines 90-94: ApiContext.get hands the url and params of build_url to
\* requests.get, and returns the body or raises
api_get ==
  /\ sent = <<>>
  /\ get_args.path \in Paths
  /\ LET built == build_url(ctx, get_args.path, get_args.params)
     IN /\ \E raised \in BOOLEAN :
             sent' = Append(sent, [url |-> built.url, params |-> built.params,
                                   raised |-> raised])
        /\ get_args' = [get_args EXCEPT !.params = built.caller]
  /\ UNCHANGED <<ctx, backend, mainVars, ruleVars>>

\* no fetcher is called on its own
NoFetcher == backend = [fn |-> None, answers |-> <<>>]

\* no call of ApiContext.get is followed on its own
UrlIdle ==
  /\ ctx = [base_url |-> [host |-> "akab-host.luna.akamaiapis.net", slash |-> FALSE],
            account_switch_key |-> None]
  /\ get_args = [path |-> None, params |-> [given |-> FALSE, map |-> EmptyParams]]
  /\ sent = <<>>
  /\ NoFetcher

(* ------------------------------- the runs ------------------------------ *)

\* the state of main() before its first statement, but for the collections
\* the checklists are generated from
MainLocals(p) ==
  /\ pc = p
  /\ exit_code = Running
  /\ net = {}
  /\ last_get = [call |-> None, endpoints |-> <<>>, raised |-> FALSE]
  /\ returned = [fn |-> None, raised |-> FALSE, value |-> <<>>]
  /\ contracts = <<>>
  /\ groups = <<>>
  /\ ci = 1
  /\ gi = 1
  /\ working_combination = NoCombination
  /\ test_data = NoProbe
  /\ probes = <<>>
  /\ report = None
  /\ properties = <<>>
  /\ pi = 1
  /\ appsec_configs = <<>>
  /\ ai = 1
  /\ appsec_rows = <<>>
  /\ products_rows = {}
  /\ gtm_domains = <<>>
  /\ di = 1
  /\ gtm_props = <<>>
  /\ gpi = 1
  /\ files = {}
  /\ csv_rows = <<>>
  /\ gtm_files = {}
  /\ checklist_files = {}
  /\ checklist_text = <<>>

\* the state of main() before its first statement: lines 633-634 and 678
MainStart(p) ==
  /\ MainLocals(p)
  /\ host_records = <<>>
  /\ parsed_by_property = <<>>
  /\ cps_rows = <<>>
  /\ cps_by_sni = <<>>

\* the state of parse_behaviors(tree) before its first statement
RulesStart(tree, p) ==
  /\ rules_root = tree
  /\ stack = <<1>>
  /\ nodes = <<>>
  /\ parsed = EmptyParsed
  /\ rpc = p

\* a run of main(): any environment, any command line
Init ==
  /\ env \in SUBSET CredNames
  /\ args \in [include_rules : BOOLEAN, include_products : BOOLEAN]
  /\ MainStart("start")
  /\ UrlIdle
  /\ RulesStart(MakeTree(1, <<>>, <<>>, <<>>, "missing"), "off")

Next ==
  \/ build_api_context
  \/ papi_contracts
  \/ papi_groups
  \/ papi_skip_pair
  \/ papi_probe_pair
  \/ papi_next_contract
  \/ papi_select
  \/ papi_listing
  \/ main_skip_property
  \/ main_hostnames
  \/ main_rules
  \/ main_cps
  \/ main_appsec_configs
  \/ main_appsec_policies
  \/ main_appsec_no_policies
  \/ main_appsec_raises
  \/ main_edgedns
  \/ main_gtm_domains
  \/ main_edgeworkers
  \/ main_cloudlets
  \/ main_cloud_wrapper
  \/ main_write_reports
  \/ main_gtm_datacenters
  \/ main_gtm_liveness
  \/ main_gtm_cidr
  \/ main_gtm_as
  \/ main_gtm_geo
  \/ main_gtm_properties
  \/ main_gtm_property
  \/ main_checklists

Spec == Init /\ [][Next]_vars

\* a call of parse_behaviors on any rule tree of up to MaxNodes nodes and
\* MaxBehaviors behavior entries
InitRules ==
  /\ env = CredNames
  /\ args = [include_rules |-> TRUE, include_products |-> FALSE]
  /\ MainStart("off")
  /\ UrlIdle
  /\ \E n \in 1..MaxNodes : \E parent \in ParentArrays(n) :
       \E bs \in SeqsUpTo(Behaviors, MaxBehaviors) :
         \E place \in Placements(Len(bs), n) : \E absent \in AbsentKinds :
           RulesStart(MakeTree(n, parent, bs, place, absent), "flatten")

NextRules ==
  \/ flatten_step
  \/ classify_nodes

SpecRules == InitRules /\ [][NextRules]_vars

\* most behavior entries of a tree whose children lists are permuted
MaxSiblingBehaviors == 2

\* behavior entries that tell the order within a bucket: two for cache, one
\* for hsts, one for no bucket
SiblingBehaviors ==
  {[name |-> "caching", options |-> [ttl |-> "300"]],
   [name |-> "caching", options |-> EmptyOptions],
   [name |-> "hsts", options |-> EmptyOptions],
   [name |-> "gzipResponse", options |-> EmptyOptions]}

\* a call of parse_behaviors on a rule tree with several behavior entries
InitSiblings ==
  /\ env = CredNames
  /\ args = [include_rules |-> TRUE, include_products |-> FALSE]
  /\ MainStart("off")
  /\ UrlIdle
  /\ \E n \in 1..MaxNodes : \E parent \in ParentArrays(n) :
       \E bs \in SeqsUpTo(SiblingBehaviors, MaxSiblingBehaviors) :
         \E place \in Placements(Len(bs), n) : \E absent \in AbsentKinds :
           RulesStart(MakeTree(n, parent, bs, place, absent), "flatten")

SpecSiblings == InitSiblings /\ [][NextRules]_vars

\* most hostname records handed to the checklists
MaxRecords == 3

\* configurations of the records: two of one name that differ in version, and
\* one of another name
ChecklistProperties ==
  {[propertyId |-> "prp_1", propertyName |-> "site-a",
    latestVersion |-> JsonInt(3), productionVersion |-> JsonInt(2),
    stagingVersion |-> JsonInt(0)],
   [propertyId |-> "prp_4", propertyName |-> "site-a",
    latestVersion |-> JsonInt(1), productionVersion |-> JsonInt(0),
    stagingVersion |-> JsonInt(0)],
   [propertyId |-> "prp_2", propertyName |-> "site-b",
    latestVersion |-> JsonInt(0), productionVersion |-> JsonInt(1),
    stagingVersion |-> JsonInt(0)]}

\* the records main() builds for a hostname item of such a configuration
ChecklistRecords ==
  {HostnameRecord(prop, [cnameFrom |-> hn, hostname |-> <<>>]) :
     prop \in ChecklistProperties, hn \in {WwwExampleCom, ExampleCom, Intranet}}

\* bundle maps: none, one configuration with a cache entry only, and three
\* configurations of which one has every bucket filled and one has none
ChecklistBundles ==
  {<<>>,
   store(<<>>, [property_id |-> "prp_1", version |-> format(JsonInt(3))],
         [cache |-> <<[ttl |-> "300"]>>, redirects |-> <<>>, headers |-> <<>>,
          hsts |-> <<>>]),
   store(store(store(<<>>, [property_id |-> "prp_1", version |-> format(JsonInt(3))],
                     [cache |-> <<[ttl |-> "300"]>>, redirects |-> <<EmptyOptions>>,
                      headers |-> <<EmptyOptions>>, hsts |-> <<EmptyOptions>>]),
               [property_id |-> "prp_2", version |-> format(JsonInt(1))], EmptyParsed),
         [property_id |-> "prp_4", version |-> format(JsonInt(1))],
         [cache |-> <<>>, redirects |-> <<>>, headers |-> <<>>,
          hsts |-> <<EmptyOptions>>])}

\* enrollment lists: none, one certificate that repeats its common name among
\* its alternative names, and two certificates of different apexes
ChecklistEnrollments ==
  {<<>>,
   <<[id |-> 11, cn |-> ExampleCom, sans |-> <<WwwExampleCom, ExampleCom>>]>>,
   <<[id |-> 12, cn |-> <<>>, sans |-> <<Intranet>>],
     [id |-> 13, cn |-> WwwExampleCom, sans |-> <<>>]>>}

\* lines 1019-1026 on their own: generate_checklist for each apex of the records
generate_checklists ==
  /\ pc = "generate"
  /\ checklist_text' =
       [apex \in {host_records[k].apex : k \in 1..Len(host_records)} |->
          generate_checklist(apex, records_of(apex), parsed_by_property, cps_by_sni)]
  /\ checklist_files' = {host_records[k].apex : k \in 1..Len(host_records)}
  /\ pc' = "generated"
  /\ UNCHANGED <<env, args, exit_code, net, last_get, discoveryVars, report,
                 properties, propertyVars, auxVars, files, csv_rows, gtm_files,
                 ruleVars, urlVars>>

\* a call of generate_checklist per apex, on any list of up to MaxRecords
\* records, any of the bundle maps and the index of any of the enrollment lists
InitChecklist ==
  /\ env = CredNames
  /\ args = [include_rules |-> TRUE, include_products |-> FALSE]
  /\ MainLocals("generate")
  /\ UrlIdle
  /\ RulesStart(MakeTree(1, <<>>, <<>>, <<>>, "missing"), "off")
  /\ host_records \in SeqsUpTo(ChecklistRecords, MaxRecords)
  /\ parsed_by_property \in ChecklistBundles
  /\ \E cps \in ChecklistEnrollments :
       /\ cps_by_sni = all_sni_pairs(cps, 1)
       /\ cps_rows = [k \in 1..Len(cps) |-> <<cps[k].id, cps[k].cn, cps[k].sans>>]

SpecChecklist == InitChecklist /\ [][generate_checklists]_vars

\* a call of ApiContext.get on any context (base_url with or without a
\* trailing slash; account_switch_key None, the empty string, or a key), path
\* and params
InitUrl ==
  /\ env = CredNames
  /\ args = [include_rules |-> FALSE, include_products |-> FALSE]
  /\ MainStart("off")
  /\ RulesStart(MakeTree(1, <<>>, <<>>, <<>>, "missing"), "off")
  /\ ctx \in [base_url : {[host |-> "akab-host.luna.akamaiapis.net", slash |-> t] :
                              t \in BOOLEAN},
               account_switch_key : {None, "", "B-C-1ABCDEF"}]
  /\ get_args \in [path : Paths, params : CallerParams]
  /\ sent = <<>>
  /\ NoFetcher

SpecUrl == InitUrl /\ [][api_get]_vars

\* longest name, in labels, whose hostnames are taken on their own
MaxLabels == 3

\* the labels of such a name
ApexLabels == {"www", "example", "shop", "com", "co", "uk"}

\* lines 654-664 on their own: the loop that appends one HostnameRecord per
\* item of the hostnames fetched for the property the loop is at
append_records ==
  /\ pc = "records"
  /\ host_records' = host_records \o
       [k \in 1..Len(returned.value) |->
          HostnameRecord(properties[pi], returned.value[k])]
  /\ pc' = "recorded"
  /\ UNCHANGED <<env, args, exit_code, net, last_get, discoveryVars, report,
                 properties, pi, parsed_by_property, auxVars, fileVars, ruleVars,
                 urlVars>>

\* main at line 654, in its loop over a listing of one property: the
\* hostnames request of lines 648-653 has raised (hostnames = []) or has
\* returned a list: none, one name of up to MaxLabels labels, or two
\* hostnames of such a name (the name itself or a name one label below it,
\* each)
InitApex ==
  /\ env = CredNames
  /\ args = [include_rules |-> FALSE, include_products |-> FALSE]
  /\ pc = "records"
  /\ exit_code = Running
  /\ net = {"contracts", "groups", "probe", "listing", "hostnames"}
  /\ \E resp \in Responses(
          {<<>>} \cup
          UNION {{<<h>>} \cup {<<p \o h, q \o h>> : p, q \in SeqsUpTo(ApexLabels, 1)} :
                   h \in SeqsUpTo(ApexLabels, MaxLabels) \ {<<>>}}) :
       /\ last_get = [call |-> "hostnames",
                      endpoints |-> <<"papi/v1/properties/{id}/versions/{v}/hostnames">>,
                      raised |-> resp.raised]
       /\ returned =
            [fn |-> "papi_get_hostnames", raised |-> resp.raised,
             value |-> [k \in 1..Len(resp.value) |->
                          [cnameFrom |-> resp.value[k], hostname |-> <<>>]]]
  /\ contracts = <<>> /\ groups = <<>> /\ ci = 1 /\ gi = 1
  /\ working_combination = NoCombination /\ test_data = NoProbe /\ probes = <<>>
  /\ report = "listed"
  /\ properties = <<CHOOSE prop \in PropertyItems : prop.propertyId = "prp_1">>
  /\ pi = 1
  /\ host_records = <<>> /\ parsed_by_property = <<>>
  /\ cps_rows = <<>> /\ cps_by_sni = <<>>
  /\ appsec_configs = <<>> /\ ai = 1 /\ appsec_rows = <<>>
  /\ products_rows = {} /\ gtm_domains = <<>> /\ di = 1 /\ gtm_props = <<>> /\ gpi = 1
  /\ files = {} /\ csv_rows = <<>> /\ gtm_files = {}
  /\ checklist_files = {} /\ checklist_text = <<>>
  /\ UrlIdle
  /\ RulesStart(MakeTree(1, <<>>, <<>>, <<>>, "missing"), "off")

SpecApex == InitApex /\ [][append_records]_vars

\* longest list in a body of the product endpoints
MaxItems == 2

\* the lists of such a body
ProductLists == SeqsUpTo({"a", "b"}, MaxItems)

\* the list fetchers of traffic management (lines 331-422)
GtmFetchers ==
  {"gtm_list_domains", "gtm_list_datacenters", "gtm_list_properties",
   "gtm_list_liveness_tests", "gtm_list_cidr_maps", "gtm_list_geo_maps",
   "gtm_list_as_maps"}

\* the endpoint each of them requests
GtmEndpoint(fn) ==
  CASE fn = "gtm_list_domains" -> "gtm/v1/domains"
    [] fn = "gtm_list_datacenters" -> "gtm/v1/domains/{domain}/datacenters"
    [] fn = "gtm_list_properties" -> "gtm/v1/domains/{domain}/properties"
    [] fn = "gtm_list_liveness_tests" -> "gtm/v1/domains/{domain}/liveness-tests"
    [] fn = "gtm_list_cidr_maps" -> "gtm/v1/domains/{domain}/cidr-maps"
    [] fn = "gtm_list_geo_maps" -> "gtm/v1/domains/{domain}/geo-maps"
    [] fn = "gtm_list_as_maps" -> "gtm/v1/domains/{domain}/as-maps"

\* a call of one of them: one request, answered by backend.answers[1]
gtm_list_call ==
  /\ backend.fn \in GtmFetchers
  /\ returned.fn = None
  /\ LET resp == backend.answers[1]
         r == gtm_list(resp)
     IN /\ Get(backend.fn, <<GtmEndpoint(backend.fn)>>, resp.raised)
        /\ returned' = [fn |-> backend.fn, raised |-> r.raised, value |-> r.value]
  /\ UNCHANGED <<env, args, pc, exit_code, discoveryVars, report, properties,
                 propertyVars, cps_rows, cps_by_sni, appsec_configs, ai, appsec_rows,
                 products_rows, gtm_domains, di, gtm_props, gpi, fileVars, ruleVars,
                 urlVars>>

\* a call of edgedns_list_zones: the v2 request is answered by
\* backend.answers[1] and the v1 request, if made, by backend.answers[2]
edgedns_call ==
  /\ backend.fn = "edgedns_list_zones"
  /\ returned.fn = None
  /\ LET r == edgedns_list_zones(backend.answers[1], backend.answers[2])
     IN /\ Get("edgedns_list_zones", r.requested, r.last_raised)
        /\ returned' = [fn |-> "edgedns_list_zones", raised |-> r.raised,
                        value |-> r.value]
  /\ UNCHANGED <<env, args, pc, exit_code, discoveryVars, report, properties,
                 propertyVars, cps_rows, cps_by_sni, appsec_configs, ai, appsec_rows,
                 products_rows, gtm_domains, di, gtm_props, gpi, fileVars, ruleVars,
                 urlVars>>

\* a call of a product fetcher against any backend
InitProducts ==
  /\ env = CredNames
  /\ args = [include_rules |-> FALSE, include_products |-> TRUE]
  /\ MainStart("off")
  /\ RulesStart(MakeTree(1, <<>>, <<>>, <<>>, "missing"), "off")
  /\ ctx = [base_url |-> [host |-> "akab-host.luna.akamaiapis.net", slash |-> FALSE],
            account_switch_key |-> None]
  /\ get_args = [path |-> None, params |-> [given |-> FALSE, map |-> EmptyParams]]
  /\ sent = <<>>
  /\ \/ \E fn \in GtmFetchers : \E resp \in Responses(GtmBodies(ProductLists)) :
          backend = [fn |-> fn, answers |-> <<resp>>]
     \/ \E v2 \in Responses(ProductLists) : \E v1 \in Responses(ProductLists) :
          backend = [fn |-> "edgedns_list_zones", answers |-> <<v2, v1>>]

NextProducts ==
  \/ gtm_list_call
  \/ edgedns_call

SpecProducts == InitProducts /\ [][NextProducts]_vars


(* ------------------------------ discovery ------------------------------ *)

\* position (a, b) of the nested loops comes before position (c, d)
Before(a, b, c, d) == a < c \/ (a = c /\ b < d)

\* the loop positions whose group lists the contract among its contractIds
MemberPositions ==
  {pos \in (1..Len(contracts)) \X (1..Len(groups)) :
     contracts[pos[1]].contractId \in groups[pos[2]].contractIds}

\* the search has adopted a pair and is about to leave the loops
Adopted == pc = "select" /\ working_combination # NoCombination

\* C1: discovery adopts the first member pair, in contract-major order, whose
\* probe returns a non-empty list: when a pair is adopted the probes made are
\* exactly those of the member pairs up to it, in order, all but the last
\* came back empty or raised, the last is the adopted pair's and was non-empty,
\* and from adoption on no further probe is made.
C1_FirstWorkingPairAdopted ==
  /\ [](Adopted =>
        LET n == Len(probes)
        IN /\ n > 0
           /\ probes[n].nonempty
           /\ \A k \in 1..(n - 1) : ~probes[k].nonempty
           /\ probes[n].ci = ci /\ probes[n].gi = gi
           /\ working_combination.contractId = contracts[ci].contractId
           /\ working_combination.groupId = groups[gi].groupId
           /\ <<ci, gi>> \in MemberPositions
           /\ \A j, k \in 1..n :
                j < k => Before(probes[j].ci, probes[j].gi, probes[k].ci, probes[k].gi)
           /\ \A pos \in MemberPositions :
                Before(pos[1], pos[2], ci, gi) =>
                  \E k \in 1..(n - 1) : probes[k].ci = pos[1] /\ probes[k].gi = pos[2])
  /\ [](working_combination # NoCombination => pc \in {"select", "listing"})
  /\ [][working_combination # NoCombination =>
          /\ probes' = probes \/ probes' = <<>>
          /\ pc' # "search"]_vars

\* C1 witness: a pair is adopted after an earlier member pair's probe came back
\* empty or raised and a non-member pair was passed over
C1_Witness ==
  /\ Adopted
  /\ Len(probes) >= 2
  /\ \E pos \in ((1..Len(contracts)) \X (1..Len(groups))) \ MemberPositions :
       Before(pos[1], pos[2], ci, gi)

\* the contract ids are pairwise distinct, and so are the group ids
DistinctIds ==
  /\ \A a, b \in 1..Len(contracts) : a # b => contracts[a].contractId # contracts[b].contractId
  /\ \A a, b \in 1..Len(groups) : a # b => groups[a].groupId # groups[b].groupId

\* C2: only member pairs are probed: every probe is of a loop position whose
\* group lists the contract; no position is probed twice, so there are at most
\* as many probes as member pairs; and when the contract ids and the group ids
\* are distinct no (contractId, groupId) pair is probed twice.
C2_OnlyMemberPairsProbed ==
  /\ \A k \in 1..Len(probes) :
       /\ <<probes[k].ci, probes[k].gi>> \in MemberPositions
       /\ probes[k].contractId = contracts[probes[k].ci].contractId
       /\ probes[k].groupId = groups[probes[k].gi].groupId
  /\ \A j, k \in 1..Len(probes) :
       j # k => <<probes[j].ci, probes[j].gi>> # <<probes[k].ci, probes[k].gi>>
  /\ Len(probes) <= Cardinality(MemberPositions)
  /\ DistinctIds =>
       \A j, k \in 1..Len(probes) :
         j # k => <<probes[j].contractId, probes[j].groupId>>
                    # <<probes[k].contractId, probes[k].groupId>>

\* C2 witness: the search ended with distinct ids, two pairs probed and a
\* non-member pair passed over
C2_Witness ==
  /\ pc = "select"
  /\ working_combination = NoCombination
  /\ DistinctIds
  /\ Len(probes) >= 2
  /\ Cardinality(MemberPositions) < Len(contracts) * Len(groups)

\* C3: when the search ends without a working combination,
\* papi_list_properties returns an empty list without raising and main goes on
\* to the auxiliary fetches; such a run never exits with an error, makes no
\* hostname record, and ends with exit code 0 with the auxiliary fetches made,
\* the base reports written, hostnames.csv holding no data row, and no
\* checklist.  It fails on a run whose security configs make main raise.
C3_NoCombinationRunCompletes ==
  /\ [][pc = "select" /\ working_combination = NoCombination =>
          /\ report' = "no_combination"
          /\ properties' = <<>>
          /\ exit_code' = Running
          /\ pc' = "cps"]_vars
  /\ [](report = "no_combination" =>
         /\ properties = <<>>
         /\ host_records = <<>>
         /\ checklist_files = {}
         /\ exit_code \in {Running, 0}
         /\ pc = "exit" =>
              /\ exit_code = 0
              /\ {"cps_list_enrollments", "appsec_list_configs"} \subseteq net
              /\ BaseReports \subseteq files
              /\ csv_rows["hostnames.csv"] = <<>>
              /\ csv_rows["usage_summary.csv"] = <<>>)

\* C4: when any of the four credentials is missing or empty, no request is
\* ever issued and the run, once build_api_context has run, has exited with
\* code 2.
C4_MissingCredentialExits2 ==
  env # CredNames =>
    /\ net = {}
    /\ last_get.call = None
    /\ pc \in {"start", "exit"}
    /\ pc = "exit" => exit_code = 2
    /\ pc = "start" => exit_code = Running

\* C4 witness: the run has exited with a single credential missing
C4_Witness ==
  /\ pc = "exit"
  /\ exit_code = 2
  /\ Cardinality(env) = Cardinality(CredNames) - 1

\* the requests of papi_list_properties
ListingCalls == {"contracts", "groups", "probe", "listing"}

\* C5 as stated: a request of property listing that raises, a discovery probe
\* included, ends the run with exit code 1.
C5_AnyListingFailureFatal ==
  last_get.raised /\ last_get.call \in ListingCalls => pc = "exit" /\ exit_code = 1

\* C5, amended: a contracts fetch, groups fetch or final listing call that
\* raises ends the run with exit code 1, with no list returned and nothing
\* written; a discovery probe that raises is caught inside the search and does
\* not end the run.
C5_ListingFailureFatalExceptProbe ==
  /\ last_get.raised /\ last_get.call \in ListingCalls \ {"probe"} =>
       /\ pc = "exit"
       /\ exit_code = 1
       /\ report = "error"
       /\ files = {}
  /\ last_get.raised /\ last_get.call = "probe" =>
       /\ exit_code = Running
       /\ report \in {None, "no_combination"}
       /\ pc \in {"search", "select", "cps"}

\* C5 witness: the final listing call raised and the run exited with code 1
C5_Witness ==
  /\ last_get.call = "listing"
  /\ last_get.raised
  /\ pc = "exit"
  /\ exit_code = 1

\* the auxiliary fetchers
AuxCalls ==
  {"cps_list_enrollments", "appsec_list_configs", "appsec_list_policies",
   "edgedns_list_zones", "gtm_list_domains", "gtm_list_datacenters",
   "gtm_list_liveness_tests", "gtm_list_cidr_maps", "gtm_list_as_maps",
   "gtm_list_geo_maps", "gtm_list_properties", "gtm_get_property",
   "edgeworkers_list", "cloudlets_list_policies", "cloud_wrapper_list"}

\* C6: no exception leaves an auxiliary fetcher: the fetcher returns, and
\* returns the empty list or mapping when its request (the last one, for a
\* fetcher with a fallback endpoint) raised; a run in which the request of an
\* auxiliary fetcher raised goes on, does not exit with an error, and ends
\* with exit code 0 and its base reports written.  It fails on a run whose
\* policies request raised and whose next security config makes main raise.
C6_AuxiliaryFailuresDegrade ==
  /\ last_get.call \in AuxCalls =>
       /\ returned.fn = last_get.call
       /\ ~returned.raised
       /\ last_get.raised =>
            /\ returned.value = <<>>
            /\ exit_code \in {Running, 0}
            /\ pc = "exit" => BaseReports \subseteq files

(* ------------------------------ rule trees ----------------------------- *)

\* a sequence without a repeated element
NoRepeat(seq) == \A j, k \in 1..Len(seq) : j # k => seq[j] # seq[k]

\* C7: flatten_rules ends after one iteration per node and returns a list in
\* which every node of the tree appears exactly once, the root first: each
\* iteration appends one node, no node is ever on the stack or in the list
\* twice, the loop can always take its next step, and at the end the list has
\* as many elements as the tree has nodes and holds them all.  A node whose
\* children entry is missing or null contributes no children.
C7_FlattenVisitsEveryNodeOnce ==
  /\ [](/\ NoRepeat(nodes \o stack)
        /\ Len(nodes) + Len(stack) <= rules_root.size
        /\ \A k \in 1..Len(nodes) : nodes[k] \in 1..rules_root.size
        /\ nodes # <<>> => nodes[1] = 1
        /\ rpc = "flatten" => ENABLED <<NextRules>>_vars
        /\ rpc = "done" =>
             /\ stack = <<>>
             /\ Len(nodes) = rules_root.size
             /\ {nodes[k] : k \in 1..Len(nodes)} = 1..rules_root.size
             /\ nodes = flatten_rules(rules_root))
  /\ [][rpc = "flatten" /\ stack # <<>> =>
          /\ nodes' = Append(nodes, stack[Len(stack)])
          /\ rpc' = "flatten"]_vars

\* C7 witness: a tree of three nodes, the root with two children whose own
\* children entries are null, has been flattened
C7_Witness ==
  /\ rpc = "done"
  /\ rules_root.size = 3
  /\ rules_root.kids[1].items = <<2, 3>>
  /\ rules_root.kids[2].kind = "null"
  /\ Len(nodes) = 3

\* the behavior entries of the tree in the order the nodes were visited
RECURSIVE VisitedBehaviors(_)
VisitedBehaviors(k) ==
  IF k > Len(nodes) THEN <<>>
  ELSE (IF rules_root.behaviors[nodes[k]].kind = "list"
          THEN rules_root.behaviors[nodes[k]].items ELSE <<>>)
       \o VisitedBehaviors(k + 1)

OptionsOf(bs) == [k \in 1..Len(bs) |-> bs[k].options]

\* the number of entries in the four buckets together
BucketTotal == Len(parsed.cache) + Len(parsed.redirects) + Len(parsed.headers) + Len(parsed.hsts)

\* C8: the cache bucket is the option-maps, empty ones included, of the
\* behaviors named "caching" in visit order; a caching behavior adds to no
\* other bucket; and a tree whose only behavior is a caching behavior gives
\* that one option-map in cache and three empty buckets.
C8_CachingGoesToCacheOnly ==
  rpc = "done" =>
    LET bs == VisitedBehaviors(1)
        caching == SelectSeq(bs, LAMBDA b : b.name = "caching")
    IN /\ parsed.cache = OptionsOf(caching)
       /\ BucketTotal - Len(parsed.cache) <= Len(bs) - Len(caching)
       /\ Len(bs) = 1 /\ Len(caching) = 1 =>
            parsed = [cache |-> <<bs[1].options>>, redirects |-> <<>>,
                      headers |-> <<>>, hsts |-> <<>>]

\* C8 witness: a tree whose only behavior is a caching behavior with an empty
\* option-map, on a node below the root, has been parsed
C8_Witness ==
  /\ rpc = "done"
  /\ rules_root.size >= 2
  /\ rules_root.behaviors[1].kind # "list"
  /\ VisitedBehaviors(1) = <<[name |-> "caching", options |-> EmptyOptions]>>
  /\ Len(parsed.cache) = 1

\* C9: the redirects bucket is the option-maps of the behaviors named
\* "redirect" or "responseCode" whose option-map is non-empty, in visit order;
\* such a behavior with an empty option-map adds to no bucket.
C9_RedirectsIffOptions ==
  rpc = "done" =>
    LET bs == VisitedBehaviors(1)
        named == SelectSeq(bs, LAMBDA b : b.name \in {"redirect", "responseCode"})
        kept == SelectSeq(named, LAMBDA b : b.options # EmptyOptions)
    IN /\ parsed.redirects = OptionsOf(kept)
       /\ BucketTotal <= Len(bs) - (Len(named) - Len(kept))
       /\ Len(bs) = 1 /\ Len(named) = 1 /\ Len(kept) = 0 => parsed = EmptyParsed

\* C9 witness: a tree whose only behavior is a responseCode behavior with an
\* empty option-map has been parsed
C9_Witness ==
  /\ rpc = "done"
  /\ VisitedBehaviors(1) = <<[name |-> "responseCode", options |-> EmptyOptions]>>
  /\ BucketTotal = 0

\* C10 as stated: the k-th entry of the headers bucket carries the name of the
\* k-th header behavior as its directive name and all of that behavior's
\* options, for every option-map, one with a key called "name" included.
C10_HeaderEntryKeepsDirectiveName ==
  rpc = "done" =>
    LET hs == SelectSeq(VisitedBehaviors(1),
                        LAMBDA b : b.name \in {"modifyOutgoingResponseHeader",
                                               "modifyOutgoingRequestHeader"})
    IN /\ Len(parsed.headers) = Len(hs)
       /\ \A k \in 1..Len(hs) : parsed.headers[k]["name"] = hs[k].name

\* C11: the hsts bucket is the option-maps, in visit order, of the behaviors
\* named "hsts", "httpStrictTransportSecurity" or "setHsts", whatever their
\* options, and of the behaviors named "setResponseHeader" whose headerName
\* option is "strict-transport-security" in any letter case
\* ("Strict-Transport-Security" included); a setResponseHeader behavior with
\* another headerName or none adds to no bucket.
C11_HstsLiteralCondition ==
  rpc = "done" =>
    LET bs == VisitedBehaviors(1)
        hsts_header(b) ==
          /\ "headerName" \in DOMAIN b.options
          /\ b.options["headerName"] \in {"strict-transport-security",
                                          "Strict-Transport-Security"}
        by_name == SelectSeq(bs, LAMBDA b :
                     \/ b.name \in {"hsts", "httpStrictTransportSecurity", "setHsts"}
                     \/ b.name = "setResponseHeader" /\ hsts_header(b))
        other_header == SelectSeq(bs, LAMBDA b :
                          b.name = "setResponseHeader" /\ ~hsts_header(b))
    IN /\ parsed.hsts = OptionsOf(by_name)
       /\ BucketTotal <= Len(bs) - Len(other_header)

\* C11 witness: a tree whose only behavior is a setResponseHeader behavior
\* with headerName "Strict-Transport-Security" has been parsed into hsts
C11_Witness ==
  /\ rpc = "done"
  /\ VisitedBehaviors(1) =
       <<[name |-> "setResponseHeader",
          options |-> [headerName |-> "Strict-Transport-Security"]]>>
  /\ Len(parsed.hsts) = 1

\* a behavior entry one of the four classification rules applies to
Classified(b) ==
  \/ b.name = "caching"
  \/ b.name \in {"redirect", "responseCode"} /\ b.options # EmptyOptions
  \/ b.name \in {"modifyOutgoingResponseHeader", "modifyOutgoingRequestHeader"}
  \/ b.name \in {"hsts", "httpStrictTransportSecurity", "setHsts"}
  \/ /\ b.name = "setResponseHeader"
     /\ "headerName" \in DOMAIN b.options
     /\ b.options["headerName"] \in {"strict-transport-security",
                                     "Strict-Transport-Security"}

\* C12: every behavior entry adds to at most one bucket and an entry no rule
\* applies to adds to none, without an error: the four buckets together hold
\* one entry per behavior entry a rule applies to, so never more entries than
\* the tree has behavior entries, and parse_behaviors returns for every tree.
C12_AtMostOneBucket ==
  /\ rpc = "flatten" => ENABLED <<NextRules>>_vars
  /\ rpc = "done" =>
       LET bs == VisitedBehaviors(1)
       IN /\ BucketTotal = Len(SelectSeq(bs, Classified))
          /\ BucketTotal <= Len(bs)
          /\ (\A k \in 1..Len(bs) : ~Classified(bs[k])) => parsed = EmptyParsed

\* C12 witness: a tree whose only behavior matches no rule has been parsed
C12_Witness ==
  /\ rpc = "done"
  /\ Len(VisitedBehaviors(1)) = 1
  /\ VisitedBehaviors(1)[1].name = "gzipResponse"
  /\ BucketTotal = 0

\* the orderings of a sequence
Orderings(seq) ==
  {[k \in 1..Len(seq) |-> seq[p[k]]] :
     p \in {f \in [1..Len(seq) -> 1..Len(seq)] :
              \A a, b \in 1..Len(seq) : a # b => f[a] # f[b]}}

\* the children entries of nodes 1..i, each list in any of its orders
RECURSIVE PermutedKids(_, _)
PermutedKids(t, i) ==
  IF i = 0 THEN {<<>>}
  ELSE {Append(ks, Entry(t.kids[i].kind, items)) :
          ks \in PermutedKids(t, i - 1), items \in Orderings(t.kids[i].items)}

\* the trees that differ from t in the order of their children lists only
PermutedTrees(t) == {[t EXCEPT !.kids = ks] : ks \in PermutedKids(t, t.size)}

\* two sequences with the same elements, each as often in one as in the other
SameMultiset(a, b) ==
  /\ Len(a) = Len(b)
  /\ \A k \in 1..Len(a) :
       Cardinality({j \in 1..Len(a) : a[j] = a[k]})
         = Cardinality({j \in 1..Len(b) : b[j] = a[k]})

\* C20: for every reordering of the children lists of the tree, each bucket
\* parse_behaviors returns holds the same entries, each as many times, as for
\* the tree itself; only the order within a bucket can differ.
C20_BucketsUnderSiblingOrder ==
  rpc = "done" =>
    \A t2 \in PermutedTrees(rules_root) :
      LET other == parse_behaviors(t2)
      IN /\ SameMultiset(other.cache, parsed.cache)
         /\ SameMultiset(other.redirects, parsed.redirects)
         /\ SameMultiset(other.headers, parsed.headers)
         /\ SameMultiset(other.hsts, parsed.hsts)

\* C20 witness: a tree has been parsed of which a reordering of the children
\* gives the cache bucket in another order
C20_Witness ==
  /\ rpc = "done"
  /\ \E t2 \in PermutedTrees(rules_root) : parse_behaviors(t2).cache # parsed.cache

(* ------------------------------ reports -------------------------------- *)

\* the public suffix rules over the labels of the names, written out: the
\* top-level domains com, net, org, co, uk and shop, the second-level suffixes
\* co.uk, net.uk and org.uk, and com.co, net.co and org.co
IcannSuffix(s) ==
  \/ Len(s) = 1 /\ s[1] \in {"com", "net", "org", "co", "uk", "shop"}
  \/ Len(s) = 2 /\ s[2] = "uk" /\ s[1] \in {"co", "net", "org"}
  \/ Len(s) = 2 /\ s[2] = "co" /\ s[1] \in {"com", "net", "org"}

\* the last n labels of a name
Ending(h, n) == [k \in 1..n |-> h[Len(h) - n + k]]

\* the registrable domains of a name (one or none): an ending of the name
\* that is one label and a public suffix, where no longer ending of the name
\* is a public suffix
Registrable(h) ==
  {d \in {Ending(h, n) : n \in 2..Len(h)} :
     /\ IcannSuffix(Tail(d))
     /\ \A m \in Len(d)..Len(h) : ~IcannSuffix(Ending(h, m))}

\* C13: a hostname record that lines 654-664 create for a hostname has as
\* apex the registrable domain of the hostname when it has one and the
\* hostname itself when it has none; two records whose hostnames have the
\* same registrable domain have the same apex.  For any name of up to
\* MaxLabels labels and the names one label below it, among them a domain and
\* its www subdomain, names under a two-label suffix, bare suffixes and
\* single labels.
C13_ApexOfHostname ==
  /\ \A k \in 1..Len(host_records) :
       LET hr == host_records[k]
       IN /\ Registrable(hr.hostname) # {} => hr.apex \in Registrable(hr.hostname)
          /\ Registrable(hr.hostname) = {} => hr.apex = hr.hostname
          /\ hr.hostname \in {WwwExampleCom, ExampleCom} => hr.apex = ExampleCom
          /\ hr.hostname = <<"shop", "example", "co", "uk">> =>
               hr.apex = <<"example", "co", "uk">>
          /\ hr.hostname \in {<<"co", "uk">>, <<"www">>, <<"shop">>} =>
               hr.apex = hr.hostname
  /\ \A j, k \in 1..Len(host_records) :
       Registrable(host_records[j].hostname) \cap Registrable(host_records[k].hostname) # {}
         => host_records[j].apex = host_records[k].apex

\* C13 witness: the loop has made the records of www.example.shop and
\* example.shop, both with the apex example.shop
C13_Witness ==
  /\ pc = "recorded"
  /\ Len(host_records) = 2
  /\ host_records[1].hostname = <<"www", "example", "shop">>
  /\ host_records[2].hostname = <<"example", "shop">>
  /\ host_records[1].apex = <<"example", "shop">>
  /\ host_records[2].apex = <<"example", "shop">>

\* the step of main that fetches the hostnames of properties[pi]
AtHostnames == pc = "property_loop" /\ is_usable(properties[pi])

\* what a Hostnames line of a checklist shows of a record
LineOf(hr) ==
  [hostname |-> hr.hostname, property_name |-> hr.property_name,
   property_version |-> hr.property_version]

\* C14: each hostname item a hostnames request returns makes one hostname
\* record, and nothing else makes one; after a successful run hostnames.csv
\* and usage_summary.csv hold one data row per record, in order, there is one
\* checklist file per distinct apex of the records and no other, and the
\* Hostnames lines of a file are the records of its apex, each once, and no
\* record of another apex.
C14_RowsAndChecklistsPerHostname ==
  /\ [][IF AtHostnames
          THEN /\ Len(host_records') = Len(host_records) + Len(returned'.value)
               /\ SubSeq(host_records', 1, Len(host_records)) = host_records
               /\ \A k \in 1..Len(returned'.value) :
                    LET item == returned'.value[k]
                        hr == host_records'[Len(host_records) + k]
                    IN /\ hr.hostname = IF item.cnameFrom # <<>> THEN item.cnameFrom
                                                                 ELSE item.hostname
                       /\ hr.property_id = properties[pi].propertyId
          ELSE host_records' = host_records]_vars
  /\ [](pc = "exit" /\ exit_code = 0 =>
         /\ Len(csv_rows["hostnames.csv"]) = Len(host_records)
         /\ Len(csv_rows["usage_summary.csv"]) = Len(host_records)
         /\ \A k \in 1..Len(host_records) :
              /\ csv_rows["hostnames.csv"][k][1] = host_records[k].hostname
              /\ csv_rows["hostnames.csv"][k][2] = host_records[k].apex
              /\ csv_rows["usage_summary.csv"][k][1] = host_records[k].apex
              /\ csv_rows["usage_summary.csv"][k][2] = host_records[k].hostname
         /\ checklist_files = {host_records[k].apex : k \in 1..Len(host_records)}
         /\ DOMAIN checklist_text = checklist_files
         /\ \A apex \in checklist_files :
              LET own == SelectSeq(host_records, LAMBDA hr : hr.apex = apex)
                  lines == checklist_text[apex].hostnames
              IN /\ SameMultiset(lines, [k \in 1..Len(own) |-> LineOf(own[k])])
                 /\ \A k \in 1..Len(lines) :
                      \E j \in 1..Len(host_records) :
                        /\ host_records[j].hostname = lines[k].hostname
                        /\ host_records[j].apex = apex)

\* C14 witness: a run over two properties has ended with more than three
\* hostname records and a checklist for each of two apexes
C14_Witness ==
  /\ pc = "exit"
  /\ exit_code = 0
  /\ Len(host_records) > 3
  /\ Cardinality(checklist_files) = 2


(* ------------------------------ checklists ----------------------------- *)

\* the sort key of a Hostnames line and of a Rules summary section
HostnameKey(line) == name_key(line.hostname)
SectionKey(sec) == <<StrRank(sec.property_name), sec.property_version>>

\* a sequence of keys that never goes down
Ascending(keys) ==
  \A k \in 1..(Len(keys) - 1) : ~LexLess(keys[k + 1], keys[k])

\* no two elements of the sequence have the same key
NoTies(keys) ==
  \A i, j \in 1..Len(keys) : keys[i] = keys[j] => i = j

\* the checklist of an apex when host_records is given in another order
ChecklistOf(apex, records) ==
  generate_checklist(apex, SelectSeq(records, LAMBDA hr : hr.apex = apex),
                     parsed_by_property, cps_by_sni)

\* C15: the Hostnames lines of a checklist are in ascending order of hostname
\* and its Rules summary sections in ascending order of (configuration name,
\* version); under any other order of host_records the checklist has the same
\* hostnames and the same section keys in the same places, and is the very
\* same checklist when no two records tie on a sort key
C15_ChecklistOrderIndependent ==
  pc = "generated" =>
    \A apex \in DOMAIN checklist_text :
      LET c == checklist_text[apex]
      IN /\ Ascending([k \in 1..Len(c.hostnames) |-> HostnameKey(c.hostnames[k])])
         /\ Ascending([k \in 1..Len(c.rules) |-> SectionKey(c.rules[k])])
         /\ \A other \in Orderings(host_records) :
              LET d == ChecklistOf(apex, other)
              IN /\ Len(d.hostnames) = Len(c.hostnames)
                 /\ Len(d.rules) = Len(c.rules)
                 /\ \A k \in 1..Len(c.hostnames) :
                      d.hostnames[k].hostname = c.hostnames[k].hostname
                 /\ \A k \in 1..Len(c.rules) :
                      SectionKey(d.rules[k]) = SectionKey(c.rules[k])
                 /\ d.sans = c.sans
                 /\ (/\ NoTies([k \in 1..Len(host_records) |->
                                  name_key(host_records[k].hostname)])
                     /\ NoTies([k \in 1..Len(host_records) |->
                                  <<StrRank(host_records[k].property_name),
                                    host_records[k].property_version>>]))
                    => d = c

\* C15 witness: a checklist was generated from three records of one apex that
\* were in neither of the two sorted orders
C15_Witness ==
  /\ pc = "generated"
  /\ Len(host_records) = 3
  /\ \E apex \in DOMAIN checklist_text :
       LET c == checklist_text[apex]
       IN /\ Len(c.hostnames) = 3
          /\ Len(c.rules) = 3
          /\ c.hostnames[1].hostname # host_records[1].hostname
          /\ SectionKey(c.rules[1]) # SectionKey(rules_section(host_records[1], EmptyParsed))
          /\ c.hostnames[1].hostname # c.hostnames[3].hostname
          /\ SectionKey(c.rules[1]) # SectionKey(c.rules[3])


\* the configurations (id and version) that have a parsed bundle and own at
\* least one hostname record of the apex
SummarizedConfigurations(apex) ==
  {lookup_key(host_records[k]) :
     k \in {i \in 1..Len(host_records) :
              /\ host_records[i].apex = apex
              /\ lookup_key(host_records[i]) \in DOMAIN parsed_by_property}}

\* the sections of a checklist written for a configuration: those under the
\* heading of one of its records, with the flags of its bundle
SectionsOf(c, key) ==
  {k \in 1..Len(c.rules) :
     \E i \in 1..Len(host_records) :
       /\ lookup_key(host_records[i]) = key
       /\ c.rules[k] = rules_section(host_records[i], parsed_by_property[key])}

\* C16: in the checklist of an apex every configuration that has a parsed
\* bundle and owns a hostname of the apex has exactly one summary section,
\* however many hostnames it owns, and the checklist has no other section
C16_OneSectionPerConfiguration ==
  \A apex \in DOMAIN checklist_text :
    LET c == checklist_text[apex]
    IN /\ \A key \in SummarizedConfigurations(apex) :
            Cardinality(SectionsOf(c, key)) = 1
       /\ Len(c.rules) = Cardinality(SummarizedConfigurations(apex))


\* the names of the enrollments fetched: every common name and alternative
\* name of cps_rows that is not empty
CertificateNames ==
  UNION {({cps_rows[k][2]} \cup {cps_rows[k][3][i] : i \in 1..Len(cps_rows[k][3])})
           \ {<<>>} : k \in 1..Len(cps_rows)}

\* the registrable domain of the model's names, spelled out
ApexOfName(n) ==
  CASE n = WwwExampleCom -> ExampleCom
    [] n = ExampleCom -> ExampleCom
    [] n = ShopExampleCoUk -> <<"example", "co", "uk">>
    [] OTHER -> n

\* C17: a checklist has the certificate-names line exactly when some
\* enrollment name (common or alternative) has the checklist's apex; the line
\* lists each such name once, in ascending order, and no name of another apex
C17_CertificateNamesOfApex ==
  \A apex \in DOMAIN checklist_text :
    LET line == checklist_text[apex].sans
        expected == {n \in CertificateNames : ApexOfName(n) = apex}
    IN /\ line.present <=> expected # {}
       /\ {line.names[k] : k \in 1..Len(line.names)} = expected
       /\ \A i, j \in 1..Len(line.names) : line.names[i] = line.names[j] => i = j
       /\ Ascending([k \in 1..Len(line.names) |-> name_key(line.names[k])])

\* C17 witness: the run wrote a checklist with a certificate-names line of two
\* names, one of which the enrollment carries twice, and a checklist without
\* the line, while the enrollment also names a host of another apex
C17_Witness ==
  /\ pc = "exit"
  /\ exit_code = 0
  /\ \E apex \in DOMAIN checklist_text :
       /\ checklist_text[apex].sans.present
       /\ Len(checklist_text[apex].sans.names) = 2
       /\ Len(SelectSeq(cps_by_sni, LAMBDA p : p.apex = apex)) = 3
  /\ \E apex \in DOMAIN checklist_text : ~checklist_text[apex].sans.present
  /\ \E n \in CertificateNames : ApexOfName(n) \notin DOMAIN checklist_text


(* ------------------------------ ApiContext ----------------------------- *)

\* the context has an account-switch key: a string that is not empty
Configured == ctx.account_switch_key # None /\ ctx.account_switch_key # ""

\* what the caller asked for: its params, or none
Asked == IF get_args.params.given THEN get_args.params.map ELSE EmptyParams

\* C18: with a switch key configured every request of ApiContext.get carries
\* accountSwitchKey with that key, whatever the caller supplied under the name,
\* and the caller's other params; with none configured the request carries the
\* caller's params and nothing else, so no accountSwitchKey unless the caller
\* put one there; and the call leaves the caller's params as they were
C18_SwitchKeyOnEveryRequest ==
  /\ [](\A k \in 1..Len(sent) :
          LET q == sent[k].params
          IN /\ Configured =>
                  /\ DOMAIN q = DOMAIN Asked \cup {"accountSwitchKey"}
                  /\ q["accountSwitchKey"] = ctx.account_switch_key
                  /\ \A p \in DOMAIN Asked \ {"accountSwitchKey"} : q[p] = Asked[p]
             /\ ~Configured => q = Asked)
  /\ [][get_args' = get_args]_vars

\* C18 witness: a request went out under a configured key although the caller
\* had supplied another accountSwitchKey, next to a param of its own
C18_Witness ==
  /\ Len(sent) = 1
  /\ Configured
  /\ get_args.params.given
  /\ DOMAIN get_args.params.map = {"accountSwitchKey", "contractId"}
  /\ get_args.params.map["accountSwitchKey"] # ctx.account_switch_key
  /\ sent[1].params["accountSwitchKey"] = ctx.account_switch_key


(* ----------------------------- rule bundles ---------------------------- *)

\* this step issues a request to the rules endpoint
RulesRequest ==
  /\ last_get' # last_get
  /\ last_get'.call = "rules"
  /\ Len(last_get'.endpoints) = 1

\* the property the loop of main is at has an id and a version
HasIdAndVersion(prop) ==
  /\ prop.propertyId # None
  /\ prop.latestVersion.n + prop.productionVersion.n + prop.stagingVersion.n > 0

\* the property loop of main is over
PropertiesDone ==
  pc \in {"cps", "appsec", "write", "checklists"} \/ (pc = "exit" /\ exit_code = 0)

\* C19: without --include-rules no rules request is ever issued, the bundle
\* map stays empty and no checklist has a Rules summary section; with it, the
\* loop passes every property once, the step that leaves a property with an id
\* and a version issues one rules request and, unless it raised, stores the
\* parsed document under the property's id and version, and no other step
\* issues a rules request or touches the bundle map
C19_RulesOncePerProperty ==
  /\ [](~args.include_rules =>
          /\ "rules" \notin net
          /\ parsed_by_property = <<>>
          /\ \A apex \in DOMAIN checklist_text : checklist_text[apex].rules = <<>>)
  /\ [](PropertiesDone => pi = Len(properties) + 1)
  /\ [][/\ pi' # pi => pi' = pi + 1
        /\ (pi' # pi /\ args.include_rules /\ HasIdAndVersion(properties[pi])) =>
             /\ RulesRequest
             /\ returned'.fn = "papi_get_rules"
             /\ IF last_get'.raised
                  THEN parsed_by_property' = parsed_by_property
                  ELSE parsed_by_property' =
                         store(parsed_by_property,
                               [property_id |-> properties[pi].propertyId,
                                version |-> format(latest_version(properties[pi]))],
                               parse_behaviors(returned'.value))
        /\ ~(pi' # pi /\ args.include_rules /\ HasIdAndVersion(properties[pi])) =>
             /\ ~RulesRequest
             /\ parsed_by_property' = parsed_by_property]_vars

\* C19 witness: a run with --include-rules over two properties, one without
\* an id, ended with the bundle of the other under its id and its version (the
\* production version, the latest being missing) and a checklist that has a
\* Rules summary section
C19_Witness ==
  /\ pc = "exit"
  /\ exit_code = 0
  /\ args.include_rules
  /\ Len(properties) = 2
  /\ properties[1].propertyId = None
  /\ DOMAIN parsed_by_property = {[property_id |-> "prp_2", version |-> format(JsonInt(1))]}
  /\ \E apex \in DOMAIN checklist_text : checklist_text[apex].rules # <<>>

(* --------------------------- discovery, again -------------------------- *)

\* this step is a probe of the properties endpoint
ProbeStep == Len(probes') = Len(probes) + 1

\* C21: a probe that raises is handled as one that returns an empty list: the
\* step leaves papi_list_properties running without an exit code or a report,
\* adopts nothing and moves to the next group of the same contract; the search
\* then goes on, so that a search ending without a working combination has
\* probed every member pair of every contract.
C21_RaisingProbeLikeEmpty ==
  /\ [][ProbeStep /\ (last_get'.raised \/ test_data' = ProbeItems(0)) =>
          /\ last_get'.call = "probe"
          /\ pc' = "search"
          /\ exit_code' = Running
          /\ report' = None
          /\ working_combination' = NoCombination
          /\ ~probes'[Len(probes')].nonempty
          /\ ci' = ci
          /\ gi' = gi + 1]_vars
  /\ [](last_get.call = "probe" /\ last_get.raised =>
          /\ pc \in {"search", "select", "cps"}
          /\ working_combination = NoCombination
          /\ exit_code = Running)
  /\ [](pc = "select" /\ working_combination = NoCombination =>
          \A pos \in MemberPositions :
            \E k \in 1..Len(probes) : probes[k].ci = pos[1] /\ probes[k].gi = pos[2])
  /\ [](pc = "search" => ENABLED <<Next>>_vars)

\* C21 witness: the probe of the first contract's last group raised and the
\* search is at the second contract, whose first group lists it
C21_Witness ==
  /\ pc = "search"
  /\ last_get.call = "probe"
  /\ last_get.raised
  /\ test_data = ProbeRaised
  /\ ci = 2
  /\ gi = 1
  /\ probes[Len(probes)].ci = 1
  /\ <<2, 1>> \in MemberPositions

\* C22: once a pair is adopted, papi_list_properties returns the list its
\* successful probe saw: the call returns (it does not raise), the list it
\* returns is not empty and has as many items as the probe counted, whatever
\* the backend answers to the second request for the pair.
C22_ReturnsProbedList ==
  [][pc = "listing" =>
       /\ pc' # "exit"
       /\ report' = "listed"
       /\ properties' # <<>>
       /\ Len(properties') = working_combination.propertiesCount]_vars

\* this step issues a request from the call site named
Requests(call) == last_get' # last_get /\ last_get'.call = call

\* C23: papi_list_properties requests in a fixed order: the first request of a
\* run is the contracts fetch; the groups are fetched only right after a
\* contracts fetch that returned a non-empty list; a probe is made only with
\* both lists fetched and non-empty; an empty contracts list returns [] with
\* no groups fetch and an empty groups list returns [] with no probe, and
\* neither return ends the run: main goes on with the returned list.
C23_FixedRequestOrder ==
  /\ [][/\ net = {} /\ net' # {} => Requests("contracts") /\ net' = {"contracts"}
        /\ Requests("groups") =>
             /\ last_get.call = "contracts"
             /\ ~last_get.raised
             /\ contracts # <<>>
        /\ Requests("probe") =>
             /\ {"contracts", "groups"} \subseteq net
             /\ contracts # <<>>
             /\ groups # <<>>
        /\ Requests("contracts") => net = {}
        /\ Requests("groups") => "groups" \notin net
        /\ report' # report /\ report' \in {"no_contracts", "no_groups"} =>
             pc' # "exit" /\ exit_code' = Running]_vars
  /\ [](report = "no_contracts" =>
          /\ "contracts" \in net
          /\ net \cap {"groups", "probe", "listing"} = {}
          /\ properties = <<>>)
  /\ [](report = "no_groups" =>
          /\ {"contracts", "groups"} \subseteq net
          /\ net \cap {"probe", "listing"} = {}
          /\ properties = <<>>)
  /\ []("probe" \in net => {"contracts", "groups"} \subseteq net)

\* C23 witness: papi_list_properties has returned [] on an empty groups list,
\* after a non-empty contracts list, and main is about to go on
C23_Witness ==
  /\ report = "no_groups"
  /\ pc = "cps"
  /\ last_get = [call |-> "groups", endpoints |-> <<"papi/v1/groups">>, raised |-> FALSE]
  /\ net = {"contracts", "groups"}

(* --------------------------- the property loop ------------------------- *)

\* the first of latestVersion, productionVersion and stagingVersion that is
\* not 0 (nor missing), as a number; 0 if there is none
FirstTruthy(prop) ==
  CASE prop.latestVersion.n # 0 -> prop.latestVersion.n
    [] prop.latestVersion.n = 0 /\ prop.productionVersion.n # 0 -> prop.productionVersion.n
    [] OTHER -> prop.stagingVersion.n

\* the step takes the property loop off the property it is at
LeavesProperty == pc = "property_loop" /\ (pc' # pc \/ pi' # pi)

\* C24: the version main uses for a property is the first truthy one among
\* latestVersion, productionVersion and stagingVersion: the records of its
\* hostnames carry it; a property without an id or without such a version is
\* passed over in one step that requests nothing, appends no record and
\* stores no bundle, so no record and no bundle ever names such a property.
C24_FirstTruthyVersionOrSkipped ==
  /\ [][LeavesProperty =>
          LET prop == properties[pi]
          IN IF prop.propertyId = None \/ FirstTruthy(prop) = 0
               THEN /\ last_get' = last_get
                    /\ net' = net
                    /\ host_records' = host_records
                    /\ parsed_by_property' = parsed_by_property
                    /\ pi' = pi + 1
               ELSE /\ last_get'.call = "hostnames"
                    /\ "hostnames" \in net'
                    /\ returned'.fn = "papi_get_hostnames"
                    /\ Len(host_records') = Len(host_records) + Len(returned'.value)
                    /\ \A k \in (Len(host_records) + 1)..Len(host_records') :
                         /\ host_records'[k].property_id = prop.propertyId
                         /\ host_records'[k].property_name = prop.propertyName
                         /\ host_records'[k].property_version = FirstTruthy(prop)]_vars
  /\ [](\A k \in 1..Len(host_records) :
          \E i \in 1..Len(properties) :
            /\ properties[i].propertyId # None
            /\ host_records[k].property_id = properties[i].propertyId
            /\ host_records[k].property_version = FirstTruthy(properties[i])
            /\ host_records[k].property_version # 0)
  /\ [](\A key \in DOMAIN parsed_by_property :
          \E i \in 1..Len(properties) :
            /\ properties[i].propertyId # None
            /\ key.property_id = properties[i].propertyId
            /\ key.version.digits = FirstTruthy(properties[i])
            /\ key.version.digits # 0)

\* C24 witness: a run over a property without any version and a property with
\* a staging version only has ended; every record carries the staging version
C24_Witness ==
  /\ pc = "exit"
  /\ exit_code = 0
  /\ Len(properties) = 2
  /\ properties[1].propertyId = "prp_3"
  /\ properties[2].propertyId = "prp_5"
  /\ Len(host_records) = 3
  /\ \A k \in 1..3 : host_records[k].property_version = 2

\* the loop is over, rules were asked for, and a property with an id and a
\* version has no bundle under its key: its rules request (or the parsing)
\* raised
RulesFailed ==
  /\ args.include_rules
  /\ pi = Len(properties) + 1
  /\ \E i \in 1..Len(properties) :
       /\ HasIdAndVersion(properties[i])
       /\ rules_key(properties[i]) \notin DOMAIN parsed_by_property

\* the items a successful hostnames request returned for the property, none
\* when it raised
FetchedHostnames == IF returned'.raised THEN 0 ELSE Len(returned'.value)

\* C25: a failure while fetching for one property stays with that property.
\* A hostnames request that raises appends no record and is followed by the
\* rules request of the same property when rules are asked for, by the next
\* property otherwise; a rules request that raises stores no bundle and
\* leaves the records alone; neither ends the run, whose loop passes every
\* property, and a run in which the rules of a property could not be fetched
\* exits only with code 0.  It fails on a run with such a property whose
\* security configs make main raise.
C25_PropertyFailuresIsolated ==
  /\ [][pc = "property_loop" /\ pc' # "property_loop" /\ pi' = pi
          /\ returned'.fn = "papi_get_hostnames" /\ returned'.raised =>
          /\ last_get'.call = "hostnames" /\ last_get'.raised
          /\ host_records' = host_records
          /\ parsed_by_property' = parsed_by_property
          /\ args.include_rules
          /\ pc' = "property_rules"
          /\ exit_code' = Running]_vars
  /\ [][pc = "property_loop" /\ pi' # pi /\ HasIdAndVersion(properties[pi]) =>
          /\ ~args.include_rules
          /\ last_get'.call = "hostnames"
          /\ returned'.fn = "papi_get_hostnames"
          /\ returned'.raised = last_get'.raised
          /\ Len(host_records') = Len(host_records) + FetchedHostnames
          /\ pc' = (IF pi < Len(properties) THEN "property_loop" ELSE "cps")
          /\ exit_code' = Running]_vars
  /\ [][pc = "property_rules" /\ pc' # pc =>
          /\ last_get'.call = "rules"
          /\ last_get'.raised => parsed_by_property' = parsed_by_property
          /\ host_records' = host_records
          /\ pi' = pi + 1
          /\ pc' = (IF pi < Len(properties) THEN "property_loop" ELSE "cps")
          /\ exit_code' = Running]_vars
  /\ [](pc \in {"property_loop", "property_rules"} =>
          /\ pi \in 1..Len(properties)
          /\ ENABLED <<Next>>_vars)
  /\ [](pc = "cps" => pi = Len(properties) + 1)
  /\ [](report = "listed" /\ RulesFailed => exit_code \in {Running, 0})

(* ------------------------------ bundle keys ---------------------------- *)

\* the keys of the bundles stored for the property of a record: those with
\* its id and its version number
StoredFor(hr) ==
  {key \in DOMAIN parsed_by_property :
     key.property_id = hr.property_id /\ key.version.digits = hr.property_version}

\* C26: a hostname record of a property whose bundle was stored finds it: the
\* key generate_checklist builds from the record is the key main stored the
\* bundle under, and the checklist of the record's apex, once written, has a
\* rules summary section for the property.
C26_StoredKeyIsLookupKey ==
  \A k \in 1..Len(host_records) :
    LET hr == host_records[k]
    IN StoredFor(hr) # {} =>
         /\ StoredFor(hr) = {lookup_key(hr)}
         /\ hr.apex \in DOMAIN checklist_text =>
              \E j \in 1..Len(checklist_text[hr.apex].rules) :
                /\ checklist_text[hr.apex].rules[j].property_name = hr.property_name
                /\ checklist_text[hr.apex].rules[j].property_version = hr.property_version

(* ------------------------------- ordering ------------------------------ *)

\* papi_list_properties has returned a list to main
Listed == report \in {"listed", "no_contracts", "no_groups", "no_combination"}

\* C27: a run that has exited with code 1 or 2 has written no file and has
\* made no request other than those of the property listing (none at all for
\* code 2); a request for anything else is made only once the listing has
\* returned; and a report file exists only once the property loop is over and
\* the certificates and the security configs have been fetched.  It fails on
\* a run that ends with status 1 in the loop over the security configs.
C27_ErrorExitWritesNothing ==
  /\ [](exit_code \in {1, 2} =>
          /\ pc = "exit"
          /\ files = {}
          /\ gtm_files = {}
          /\ checklist_files = {}
          /\ csv_rows = <<>>
          /\ host_records = <<>>
          /\ net \subseteq ListingCalls
          /\ exit_code = 2 => net = {})
  /\ [](net \ ListingCalls # {} => Listed /\ exit_code \in {Running, 0})
  /\ [](files # {} \/ csv_rows # <<>> =>
          /\ Listed
          /\ pi = Len(properties) + 1
          /\ {"cps_list_enrollments", "appsec_list_configs"} \subseteq net
          /\ BaseReports \subseteq files
          /\ pc \notin {"property_loop", "property_rules", "cps", "appsec",
                        "appsec_policies"})

(* ------------------------------- products ------------------------------ *)

\* C28: a traffic-management list fetcher returns the value of "items" when
\* the body is a mapping that has the key, the body itself when it is a list,
\* and the empty list for a mapping without "items" and for any other shape
\* (and when the request raised); it never raises.
C28_GtmShapeNormalized ==
  returned.fn \in GtmFetchers =>
    LET resp == backend.answers[1]
    IN /\ returned.fn = backend.fn
       /\ ~returned.raised
       /\ ~resp.raised /\ resp.value.shape = "dict_items" =>
            returned.value = resp.value.items
       /\ ~resp.raised /\ resp.value.shape = "list" => returned.value = resp.value.items
       /\ ~resp.raised /\ resp.value.shape \in {"dict", "other"} => returned.value = <<>>
       /\ resp.raised => returned.value = <<>>

\* C28 witness: gtm_list_geo_maps was answered with a bare list of two items
\* and returned it
C28_Witness ==
  /\ returned.fn = "gtm_list_geo_maps"
  /\ ~backend.answers[1].raised
  /\ backend.answers[1].value.shape = "list"
  /\ returned.value = <<"b", "a">>

\* C29: edgedns_list_zones requests the v1 zones exactly when the v2 request
\* raised or returned no zone; a non-empty v2 list is returned after that one
\* request; otherwise the v1 list is returned, or the empty list when the v1
\* request raised as well; the fetcher never raises.
C29_EdgeDnsFallback ==
  returned.fn = "edgedns_list_zones" =>
    LET v2 == backend.answers[1]
        v1 == backend.answers[2]
        fallback == v2.raised \/ v2.value = <<>>
    IN /\ ~returned.raised
       /\ last_get.endpoints[1] = "config-dns/v2/zones"
       /\ Len(last_get.endpoints) = (IF fallback THEN 2 ELSE 1)
       /\ fallback => last_get.endpoints[2] = "config-dns/v1/zones"
       /\ ~fallback => returned.value = v2.value
       /\ fallback /\ ~v1.raised => returned.value = v1.value
       /\ fallback /\ v1.raised => returned.value = <<>>

\* C29 witness: the v2 request returned no zone, the v1 request returned two
\* and they were returned
C29_Witness ==
  /\ returned.fn = "edgedns_list_zones"
  /\ backend.answers[1] = [raised |-> FALSE, value |-> <<>>]
  /\ ~backend.answers[2].raised
  /\ Len(last_get.endpoints) = 2
  /\ returned.value = <<"a", "b">>

============================================================================
